---- MODULE Spec2Model ----
(***************************************************************************)
(* A model of the overlord monitoring dashboard: the state aggregator      *)
(* (lib/core.py), the plugin base (lib/pluginBase.py), the UDP endpoint    *)
(* multiplexer (plugins/udp.py) and the watchdog trigger state machine     *)
(* (plugins/watchdog.py).                                                  *)
(*                                                                         *)
(* Python strings are TLA+ strings; str.strip, str.lower and str.split are *)
(* computed character by character.  Python's None for a string-valued     *)
(* field is the string None below.                                         *)
(***************************************************************************)
EXTENDS Integers, Sequences, FiniteSets, TLC

VARIABLES
    \* MonitorCore (lib/core.py)
    hostsByName,            \* dict[str, HostState]
    hostOrder,              \* list[str]
    selectedIndex,          \* int
    commandLog,             \* list[str], each line a pair <<timestamp, message>>
    statusMsg,              \* str
    lastRowByHostBaseType,  \* dict[(host, baseType), TableRow]
    \* plugin instances (lib/pluginBase.py)
    logMessages,            \* instance -> bool
    \* observation of the last operation (its arguments and outcome)
    lastOp,
    nWrites,                \* number of writeTable calls made so far
    registered,             \* sequence of instances in registration order
    now,                    \* time.time(), in clock ticks
    \* MonitorCore.writeLog as the worker threads run it
    logLock,                \* self.logLock: the thread holding it, None if free
    tpc,                    \* thread -> where it is in writeLog
    tline,                  \* thread -> its local variable line
    tslice,                 \* thread -> the slice it has read and not yet stored
    tcalls,                 \* thread -> number of writeLog calls it has begun
    written,                \* every line handed to the log, in the order of the lock
    writers,                \* the threads inside MonitorCore.writeTable, step by step
    \* the endpoint multiplexer (plugins/udp.py)
    udpListenersByKey,      \* _udpListenersByKey: (bindIp, port) -> listener
    listeners,              \* the UdpListener objects ever made, by identity
    listenerOf,             \* instance -> its self.listener
    mainPc,                 \* where the main thread is inside UdpPlugin.stop
    workers,                \* listener -> the frame of its thread running loop()
    sockets,                \* listener -> the socket its thread made: none/open/closed
    events,                 \* listener -> the flag of its threading.Event
    starts,                 \* instance -> number of start() calls made
    spawned,                \* listener -> number of threads started for it
    nRecv,                  \* number of datagrams received so far
    \* the watchdog (plugins/watchdog.py)
    wd,                     \* the Watchdog object: its three fields and runOnFirst
    wdPlugin,               \* WatchdogPlugin: stopEvent, the event's flag, threadObj
    wdLoop,                 \* the frame of the thread running loop()
    rescues,                \* the frames of the threads running _runRescueThread
    wdMain,                 \* where the main thread is inside WatchdogPlugin.stop
    wdObs,                  \* observation: the calls of maybeTrigger, the probe's writes
    \* the application (lib/app.py)
    app                     \* MonitorApp.run: where it is and the calls it has made

coreVars == <<hostsByName, hostOrder, selectedIndex, commandLog, statusMsg,
              lastRowByHostBaseType, logMessages, lastOp, nWrites, registered, now>>

logVars == <<logLock, tpc, tline, tslice, tcalls, written, writers>>

udpVars == <<udpListenersByKey, listeners, listenerOf, mainPc, workers, sockets, events,
             starts, spawned, nRecv>>

wdVars == <<wd, wdPlugin, wdLoop, rescues, wdMain, wdObs>>

appVars == <<app>>

vars == <<coreVars, logVars, udpVars, wdVars, appVars>>

-----------------------------------------------------------------------------
(* Python values and string methods *)

None == "<None>"

Min(S) == CHOOSE x \in S : \A y \in S : x <= y
Max(S) == CHOOSE x \in S : \A y \in S : x >= y

CharAt(s, i) == SubSeq(s, i, i)

\* str.lower() on one character
LowerChar(c) ==
    CASE c = "A" -> "a" [] c = "B" -> "b" [] c = "C" -> "c" [] c = "D" -> "d"
      [] c = "E" -> "e" [] c = "F" -> "f" [] c = "G" -> "g" [] c = "H" -> "h"
      [] c = "I" -> "i" [] c = "J" -> "j" [] c = "K" -> "k" [] c = "L" -> "l"
      [] c = "M" -> "m" [] c = "N" -> "n" [] c = "O" -> "o" [] c = "P" -> "p"
      [] c = "Q" -> "q" [] c = "R" -> "r" [] c = "S" -> "s" [] c = "T" -> "t"
      [] c = "U" -> "u" [] c = "V" -> "v" [] c = "W" -> "w" [] c = "X" -> "x"
      [] c = "Y" -> "y" [] c = "Z" -> "z"
      [] OTHER -> c

RECURSIVE LowerChars(_)
LowerChars(s) == IF s = "" THEN "" ELSE LowerChar(CharAt(s, 1)) \o LowerChars(Tail(s))

\* str.strip(): drop leading and trailing blanks
StripChars(s) ==
    LET keep == {i \in 1..Len(s) : CharAt(s, i) # " "}
    IN IF keep = {} THEN "" ELSE SubSeq(s, Min(keep), Max(keep))

\* s.split(sep, 1)[0]: the part before the first separator, all of s if none
SplitFirstChars(s, sep) ==
    LET at == {i \in 1..Len(s) : CharAt(s, i) = sep}
    IN IF at = {} THEN s ELSE SubSeq(s, 1, Min(at) - 1)

(* The three string functions are tabulated once for the strings the model *)
(* passes most often; any other string is computed on the spot.  The value *)
(* is the same either way.                                                 *)
CommonStrings ==
    {"", "?", "db1", " db1 ", "Web", "web", "processes", "processes:Nginx",
     "processes:nginx", "ssh:x", "ssh", "nope", "udp", "ping", "watchdog",
     "ok", "bad", "info", "warn", " 10.0.0.7", "10.0.0.7", "t", "R", "2", "SSH ",
     "++", "--", "LS+", "ls-", "ls+", "0", "1", "3", " t ", "x",
     "gw", "10.0.0.8", "10.0.0.9", " 10.0.0.9", "Cam-A", "cam-a", " ",
     "Ping", "Bad", "fix", "WATCHDOG"}

LowerTable == [s \in CommonStrings |-> LowerChars(s)]
StripTable == [s \in CommonStrings |-> StripChars(s)]
SplitColonTable == [s \in CommonStrings |-> SplitFirstChars(s, ":")]

Lower(s) == IF s \in CommonStrings THEN LowerTable[s] ELSE LowerChars(s)
Strip(s) == IF s \in CommonStrings THEN StripTable[s] ELSE StripChars(s)
SplitFirst(s, sep) ==
    IF sep = ":" /\ s \in CommonStrings THEN SplitColonTable[s] ELSE SplitFirstChars(s, sep)

\* Python's `x or d` on strings (None and "" are falsy)
OrDefault(s, d) == IF s = "" \/ s = None THEN d ELSE s

\* str(x or ""): None becomes the empty string
StrOrEmpty(s) == IF s = None THEN "" ELSE s

\* dict assignment m[k] = v
Put(m, k, v) == [x \in (DOMAIN m) \cup {k} |-> IF x = k THEN v ELSE m[x]]

\* dict.pop(k, None)
Drop(m, k) == [x \in (DOMAIN m) \ {k} |-> m[x]]

EmptyDict == [x \in {} |-> None]

-----------------------------------------------------------------------------
(* The plugin registry (lib/pluginLoader.py), populated once at startup    *)
(* from the pluginMeta of every module of the plugins package.             *)

pluginsByType ==
    [t \in {"example", "http", "ping", "processes", "ssh", "udp", "watchdog"} |->
        [typeName |-> t, showInTable |-> t \notin {"ssh", "watchdog"}]]

\* a variant of the lookup by the exact type name
resolveExact(typeName) ==
    IF StrOrEmpty(typeName) \in DOMAIN pluginsByType THEN StrOrEmpty(typeName) ELSE None

\* PluginRegistry.resolve: the key of the descriptor, None if unknown
resolve(typeName) ==
    LET key == Lower(Strip(StrOrEmpty(typeName)))
    IN IF key \in DOMAIN pluginsByType THEN key ELSE None

\* a variant that shows the rows of a type the registry does not know
pluginShowInTableUnknownShown(pluginType) ==
    LET loaded == resolve(pluginType)
    IN loaded = None \/ pluginsByType[loaded].showInTable

\* a variant that ignores the descriptor's showInTable flag
pluginShowInTableFlagIgnored(pluginType) == resolve(pluginType) # None

\* MonitorCore.pluginShowInTable
pluginShowInTable(pluginType) ==
    LET loaded == resolve(pluginType)
    IN loaded # None /\ pluginsByType[loaded].showInTable

\* MonitorCore.getBaseTypeFromSource
getBaseTypeFromSource(source) ==
    LET pluginTypeFull == OrDefault(Lower(Strip(StrOrEmpty(source))), "?")
    IN SplitFirst(pluginTypeFull, ":")

-----------------------------------------------------------------------------
(* Data shapes (lib/pluginApi.py) and HostState (lib/core.py) *)

TableRow(host, ip, source, text, severity, ts) ==
    [host |-> host, ip |-> ip, source |-> source, text |-> text,
     severity |-> severity, ts |-> ts]

CommandSpec(key, label, payload) == [key |-> key, label |-> label, payload |-> payload]

HostState(host) ==
    [host |-> host, ip |-> None, rowsBySource |-> EmptyDict,
     commandsByKey |-> EmptyDict, executorsByPlugin |-> EmptyDict]

(* The configured plugin instances: the class attribute typeName, the      *)
(* element name handed to the constructor, and what commands() returns.    *)
Instances == {"i1", "i2", "i3", "i4", "i5", "i6", "i7", "i8"}

InstanceConfig ==
    [i \in Instances |->
        CASE i = "i1" -> [typeName |-> "ping", name |-> "db1",
                          cmds |-> <<CommandSpec("t", "tracert", EmptyDict)>>]
          [] i = "i2" -> [typeName |-> "ssh", name |-> " db1 ",
                          cmds |-> <<CommandSpec("t", "top",
                                        [k \in {"command", "label"} |-> "top"]),
                                     CommandSpec("R", "reboot",
                                        [k \in {"command", "label"} |-> "reboot"])>>]
          [] i = "i3" -> [typeName |-> "udp", name |-> "Web", cmds |-> <<>>]
          [] i = "i4" -> [typeName |-> "udp", name |-> "db1", cmds |-> <<>>]
          [] i = "i5" -> [typeName |-> "udp", name |-> "gw", cmds |-> <<>>]
          [] i = "i6" -> [typeName |-> "watchdog", name |-> "db1", cmds |-> <<>>]
          \* a second configuration file that names host db1
          [] i = "i7" -> [typeName |-> "udp", name |-> "db1", cmds |-> <<>>]
          \* a second host declared for the machine that sends for host Web
          [] i = "i8" -> [typeName |-> "udp", name |-> "Cam", cmds |-> <<>>]]

typeNameOf(i) == InstanceConfig[i].typeName

\* the instances of type udp
UdpInstances == {i \in Instances : InstanceConfig[i].typeName = "udp"}

\* the main thread is not inside a stop() of a udp instance
MainIdle == [step |-> "idle", pluginObj |-> None, listener |-> None]

\* PluginBase.__init__: self.hostKey
hostKeyOf(i) == OrDefault(Strip(InstanceConfig[i].name), "?")

\* what the instance's commands() returns
commandsOf(i) == InstanceConfig[i].cmds

\* the MonitorCore object as one record
Core ==
    [hostsByName |-> hostsByName, hostOrder |-> hostOrder,
     selectedIndex |-> selectedIndex, commandLog |-> commandLog,
     statusMsg |-> statusMsg, lastRowByHostBaseType |-> lastRowByHostBaseType]

SetCore(c) ==
    /\ hostsByName' = c.hostsByName
    /\ hostOrder' = c.hostOrder
    /\ selectedIndex' = c.selectedIndex
    /\ commandLog' = c.commandLog
    /\ statusMsg' = c.statusMsg
    /\ lastRowByHostBaseType' = c.lastRowByHostBaseType

-----------------------------------------------------------------------------
(* MonitorCore (lib/core.py) *)

maxLogLines == 512

\* the last n elements of a list: lst[-n:]
LastN(lst, n) == IF Len(lst) <= n THEN lst ELSE SubSeq(lst, Len(lst) - n + 1, Len(lst))

\* a variant that cuts the full log at the wrong end
writeLogListKeepsOldest(log, ts, msg) ==
    LET appended == Append(log, <<ts, msg>>)
    IN IF Len(appended) > maxLogLines THEN SubSeq(appended, 1, maxLogLines) ELSE appended

\* MonitorCore.writeLog on the log list: the line carries its time stamp
writeLogList(log, ts, msg) ==
    LET line == <<ts, msg>>
        appended == Append(log, line)
    IN IF Len(appended) > maxLogLines THEN LastN(appended, maxLogLines) ELSE appended

writeLog(c, msg) == [c EXCEPT !.commandLog = writeLogList(@, now, msg)]

\* a variant of ensureHost that makes a new HostState on every call
ensureHostFresh(c, hostKey) ==
    LET key == OrDefault(Strip(StrOrEmpty(hostKey)), "?")
    IN [c EXCEPT !.hostsByName = Put(@, key, HostState(key)),
                 !.hostOrder = IF key \in DOMAIN c.hostsByName THEN @ ELSE Append(@, key),
                 !.selectedIndex = IF c.hostOrder = <<>> THEN 0 ELSE @]

\* MonitorCore.ensureHost
ensureHost(c, hostKey) ==
    LET key == OrDefault(Strip(StrOrEmpty(hostKey)), "?")
    IN IF key \in DOMAIN c.hostsByName
       THEN c
       ELSE [c EXCEPT !.hostsByName = Put(@, key, HostState(key)),
                      !.hostOrder = Append(@, key),
                      !.selectedIndex = IF Len(c.hostOrder) + 1 = 1 THEN 0 ELSE @]

\* MonitorCore.getLastSeverity
getLastSeverity(c, hostKey, sourceBaseType) ==
    LET hk == Strip(StrOrEmpty(hostKey))
        bt == Lower(Strip(StrOrEmpty(sourceBaseType)))
    IN IF hk = "" \/ bt = "" THEN None
       ELSE IF <<hk, bt>> \notin DOMAIN c.lastRowByHostBaseType THEN None
       ELSE LET sev == Lower(Strip(StrOrEmpty(c.lastRowByHostBaseType[<<hk, bt>>].severity)))
            IN OrDefault(sev, None)

\* a variant that stores the row under the source as spelt by the writer
writeTableRowRawKey(c, row) ==
    LET st == OrDefault(Strip(StrOrEmpty(row.host)), "?")
        c1 == ensureHost(c, row.host)
        baseType == SplitFirst(OrDefault(Lower(Strip(StrOrEmpty(row.source))), "?"), ":")
    IN IF ~pluginShowInTable(baseType)
       THEN c1
       ELSE [c1 EXCEPT !.hostsByName[st].rowsBySource = Put(@, row.source, row)]

\* MonitorCore.writeTableRow
writeTableRow(c, row) ==
    LET st == OrDefault(Strip(StrOrEmpty(row.host)), "?")
        c1 == ensureHost(c, row.host)
        pluginTypeFull == OrDefault(Lower(Strip(StrOrEmpty(row.source))), "?")
        baseType == SplitFirst(pluginTypeFull, ":")
    IN IF ~pluginShowInTable(baseType)
       THEN c1
       ELSE [c1 EXCEPT
               !.hostsByName[st].rowsBySource = Put(@, pluginTypeFull, row),
               !.hostsByName[st].ip =
                   IF row.ip # None /\ Strip(row.ip) # "" THEN Strip(row.ip) ELSE @]

\* the row writeTable stores: the row itself, or a copy stamped with hostKey
fixedRowOf(hostKey, row) ==
    IF row.host # "" /\ row.host # None
    THEN row
    ELSE [row EXCEPT !.host = OrDefault(Strip(StrOrEmpty(hostKey)), "?")]

\* a variant that caches a row only when its type is displayed
writeTableCacheShownOnly(c, hostKey, row) ==
    LET fixedRow == fixedRowOf(hostKey, row)
        hostKeyFixed == Strip(StrOrEmpty(fixedRow.host))
        baseType == getBaseTypeFromSource(fixedRow.source)
        c1 == IF hostKeyFixed # "" /\ baseType # "" /\ pluginShowInTable(baseType)
              THEN [c EXCEPT !.lastRowByHostBaseType =
                                Put(@, <<hostKeyFixed, baseType>>, fixedRow)]
              ELSE c
    IN writeTableRow(c1, fixedRow)

\* MonitorCore.writeTable
writeTable(c, hostKey, row) ==
    LET fixedRow == fixedRowOf(hostKey, row)
        hostKeyFixed == Strip(StrOrEmpty(fixedRow.host))
        baseType == getBaseTypeFromSource(fixedRow.source)
        c1 == IF hostKeyFixed # "" /\ baseType # ""
              THEN [c EXCEPT !.lastRowByHostBaseType =
                                Put(@, <<hostKeyFixed, baseType>>, fixedRow)]
              ELSE c
    IN writeTableRow(c1, fixedRow)

\* a variant of the loop in which a key already present is left alone
RECURSIVE mergeCommandsKeepFirst(_, _, _)
mergeCommandsKeepFirst(commandsByKey, cmds, pluginKey) ==
    IF cmds = <<>> THEN commandsByKey
    ELSE LET cmd == Head(cmds)
             payloadObj == Put(cmd.payload, "plugin", pluginKey)
             merged == IF cmd.key = "" \/ cmd.key = None \/ cmd.key \in DOMAIN commandsByKey
                       THEN commandsByKey
                       ELSE Put(commandsByKey, cmd.key,
                                CommandSpec(cmd.key, cmd.label, payloadObj))
         IN mergeCommandsKeepFirst(merged, Tail(cmds), pluginKey)

\* the loop of registerPlugin over the declared commands
RECURSIVE mergeCommands(_, _, _)
mergeCommands(commandsByKey, cmds, pluginKey) ==
    IF cmds = <<>> THEN commandsByKey
    ELSE LET cmd == Head(cmds)
             payloadObj == Put(cmd.payload, "plugin", pluginKey)
             merged == IF cmd.key = "" \/ cmd.key = None
                       THEN commandsByKey
                       ELSE Put(commandsByKey, cmd.key,
                                CommandSpec(cmd.key, cmd.label, payloadObj))
         IN mergeCommands(merged, Tail(cmds), pluginKey)

\* a variant of registerPlugin that merges the commands of an instance
\* without entering the instance among the executors of its host
registerPluginCommandsOnly(c, pluginObj) ==
    LET pluginKey == Lower(Strip(StrOrEmpty(typeNameOf(pluginObj))))
        hostKey == Strip(StrOrEmpty(hostKeyOf(pluginObj)))
        c1 == ensureHost(c, hostKey)
    IN IF pluginKey = "" \/ hostKey = "" THEN c
       ELSE [c1 EXCEPT
               !.hostsByName[hostKey].commandsByKey =
                   mergeCommands(@, commandsOf(pluginObj), pluginKey)]

\* MonitorCore.registerPlugin
registerPlugin(c, pluginObj) ==
    LET pluginKey == Lower(Strip(StrOrEmpty(typeNameOf(pluginObj))))
        hostKey == Strip(StrOrEmpty(hostKeyOf(pluginObj)))
        c1 == ensureHost(c, hostKey)
    IN IF pluginKey = "" \/ hostKey = "" THEN c
       ELSE [c1 EXCEPT
               !.hostsByName[hostKey].executorsByPlugin = Put(@, pluginKey, pluginObj),
               !.hostsByName[hostKey].commandsByKey =
                   mergeCommands(@, commandsOf(pluginObj), pluginKey)]

\* MonitorCore.selectedHost: the clamped index (the call stores it back)
clampedIndex(c) ==
    LET hi == Len(c.hostOrder) - 1
        lo == IF c.selectedIndex < hi THEN c.selectedIndex ELSE hi
    IN IF lo > 0 THEN lo ELSE 0

\* MonitorCore.selectedHost: the host key, None when there is no host
selectedHost(c) ==
    IF c.hostOrder = <<>> THEN None ELSE c.hostOrder[clampedIndex(c) + 1]

\* the state selectedHost leaves behind
afterSelectedHost(c) ==
    IF c.hostOrder = <<>> THEN c ELSE [c EXCEPT !.selectedIndex = clampedIndex(c)]

\* a variant of selectByNumber that counts the hosts from 0
selectByNumberFromZero(c, n1) ==
    IF 0 <= n1 /\ n1 < Len(c.hostOrder) THEN [c EXCEPT !.selectedIndex = n1] ELSE c

\* MonitorCore.selectByNumber
selectByNumber(c, n1) ==
    LET idx == n1 - 1
    IN IF 0 <= idx /\ idx < Len(c.hostOrder) THEN [c EXCEPT !.selectedIndex = idx] ELSE c

Digits == <<"0", "1", "2", "3", "4", "5", "6", "7", "8", "9">>

\* str.isdigit()
isdigit(s) ==
    /\ s # ""
    /\ \A i \in 1..Len(s) : \E d \in 1..10 : Digits[d] = CharAt(s, i)

\* int(s) of a string of digits
RECURSIVE int(_)
int(s) ==
    IF s = "" THEN 0
    ELSE LET last == CharAt(s, Len(s))
             d == CHOOSE k \in 1..10 : Digits[k] = last
         IN 10 * int(SubSeq(s, 1, Len(s) - 1)) + (d - 1)

\* PluginBase.toggleLogMessages, overridden as a no-op by SSHPlugin
toggleLogMessages(flags, pluginObj, enable) ==
    IF typeNameOf(pluginObj) = "ssh" THEN flags
    ELSE [flags EXCEPT ![pluginObj] = enable]

\* toggleLogMessages(enable) on every instance of a set, one after the other
RECURSIVE toggleAll(_, _, _)
toggleAll(flags, pluginObjs, enable) ==
    IF pluginObjs = {} THEN flags
    ELSE LET p == CHOOSE x \in pluginObjs : TRUE
         IN toggleAll(toggleLogMessages(flags, p, enable), pluginObjs \ {p}, enable)

\* a variant that returns the instances of every host
executorsOfEveryHost(c, hostKey) ==
    UNION {{c.hostsByName[h].executorsByPlugin[k] :
               k \in DOMAIN c.hostsByName[h].executorsByPlugin} : h \in DOMAIN c.hostsByName}

\* the instances held in executorsByPlugin of a host
executorsOf(c, hostKey) ==
    {c.hostsByName[hostKey].executorsByPlugin[k] :
        k \in DOMAIN c.hostsByName[hostKey].executorsByPlugin}

allExecutors(c) == UNION {executorsOf(c, h) : h \in DOMAIN c.hostsByName}

\* what a call leaves: the core, the logging flags, the instance whose
\* execCommand ran (None if none did)
Outcome(c, flags, invoked) == [core |-> c, flags |-> flags, invoked |-> invoked]

\* a variant of the lookup that says nothing about a key the selected host
\* does not have
dispatchCommandSilent(c, flags, s, raises) ==
    LET hostKeySel == selectedHost(c)
        c1 == afterSelectedHost(c)
    IN IF hostKeySel = None THEN Outcome(c1, flags, None)
       ELSE IF s \notin DOMAIN c1.hostsByName[hostKeySel].commandsByKey
       THEN Outcome(c1, flags, None)
       ELSE LET st == c1.hostsByName[hostKeySel]
                pluginKey == st.commandsByKey[s].payload["plugin"]
            IN IF raises
               THEN Outcome(writeLog(c1, hostKeySel \o ": :" \o s
                                            \o " EXC RuntimeError: boom"),
                            flags, st.executorsByPlugin[pluginKey])
               ELSE Outcome(c1, flags, st.executorsByPlugin[pluginKey])

\* MonitorCore.execCommand, the lookup of a command key and its dispatch;
\* raises tells whether the instance's execCommand raises
dispatchCommand(c, flags, s, raises) ==
    LET hostKeySel == selectedHost(c)
        c1 == afterSelectedHost(c)
    IN IF hostKeySel = None THEN Outcome(c1, flags, None)
       ELSE IF hostKeySel \notin DOMAIN c1.hostsByName THEN Outcome(c1, flags, None)
       ELSE LET st == c1.hostsByName[hostKeySel]
            IN IF s \notin DOMAIN st.commandsByKey
               THEN Outcome(writeLog(c1, hostKeySel \o ": unknown command: " \o s),
                            flags, None)
               ELSE LET payloadObj == st.commandsByKey[s].payload
                        pluginKey ==
                            OrDefault(Lower(Strip(
                                IF "plugin" \in DOMAIN payloadObj
                                THEN StrOrEmpty(payloadObj["plugin"]) ELSE "")), "?")
                    IN IF pluginKey \notin DOMAIN st.executorsByPlugin
                       THEN Outcome(writeLog(c1, hostKeySel \o ": no executor for plugin="
                                                   \o pluginKey), flags, None)
                       ELSE IF raises
                       THEN Outcome(writeLog(c1, hostKeySel \o ": :" \o s
                                                   \o " EXC RuntimeError: boom"),
                                    flags, st.executorsByPlugin[pluginKey])
                       ELSE Outcome(c1, flags, st.executorsByPlugin[pluginKey])

\* MonitorCore.execCommand
execCommand(c, flags, rawCmd, raises) ==
    LET cmdStr == Strip(StrOrEmpty(rawCmd))
        cmdKey == Lower(SplitFirst(cmdStr, " "))
        hostKeySel == selectedHost(c)
        c1 == afterSelectedHost(c)
    IN IF cmdStr = "" THEN Outcome([c EXCEPT !.statusMsg = "ready"], flags, None)
       ELSE IF cmdKey = "++" THEN Outcome(c, toggleAll(flags, allExecutors(c), TRUE), None)
       ELSE IF cmdKey = "--" THEN Outcome(c, toggleAll(flags, allExecutors(c), FALSE), None)
       ELSE IF cmdKey = "ls+" \/ cmdKey = "ls-"
       THEN IF hostKeySel = None \/ hostKeySel \notin DOMAIN c1.hostsByName
            THEN Outcome(c1, flags, None)
            ELSE Outcome(c1, toggleAll(flags, executorsOf(c1, hostKeySel), cmdKey = "ls+"),
                         None)
       ELSE IF isdigit(cmdStr) THEN Outcome(selectByNumber(c, int(cmdStr)), flags, None)
       ELSE dispatchCommand(c, flags, cmdStr, raises)

-----------------------------------------------------------------------------
(* Bounds of the model and the inputs drawn at each step *)

MaxWrites == 2

\* sources as the probes write them: a base type, optionally ":" and a sub-source
Sources == {"processes", "processes:Nginx", "processes:nginx", "ssh:x", "nope"}

RowVariants ==
    {[text |-> "up", severity |-> "ok", ip |-> None, ts |-> 1],
     [text |-> "down", severity |-> "bad", ip |-> " 10.0.0.7", ts |-> 2]}

\* the rows an instance builds: with its own host key, or with the host omitted
RowsOf(i) ==
    {TableRow(h, v.ip, src, v.text, v.severity, v.ts) :
        h \in {hostKeyOf(i), ""}, src \in Sources, v \in RowVariants}

\* operator input for the table specification
TableCmds == {"2", "t"}

\* operator input for the command specification
CmdInputs == {"", "++", "--", "LS+", "ls-", "0", "1", "2", "3", " t ", "R", "x"}

\* the log lines a run of the core specifications may add
MaxLogged == 1

-----------------------------------------------------------------------------
(* Actions *)

InitCore ==
    /\ hostsByName = EmptyDict
    /\ hostOrder = <<>>
    /\ selectedIndex = 0
    /\ statusMsg = "ready"
    /\ lastRowByHostBaseType = EmptyDict
    /\ logMessages = [i \in Instances |-> FALSE]
    /\ lastOp = [op |-> "init"]
    /\ nWrites = 0
    /\ registered = <<>>
    /\ now = 1

Threads == {"w1", "w2"}

\* the writer threads, their bound and their frames before any call of writeTable
WriterThreads == {"a", "b"}

MaxWriterCalls == 1

\* no thread is inside writeTable; made counts the HostState objects made per key
NoWriters ==
    [frame |-> [t \in WriterThreads |->
                  [pc |-> "idle", row |-> None, key |-> None, st |-> 0, calls |-> 0]],
     made |-> [x \in {} |-> 0],
     done |-> <<>>]

InitThreads ==
    /\ logLock = None
    /\ tpc = [t \in Threads |-> "idle"]
    /\ tline = [t \in Threads |-> <<0, "">>]
    /\ tslice = [t \in Threads |-> <<>>]
    /\ tcalls = [t \in Threads |-> 0]
    /\ writers = NoWriters

InitLog ==
    /\ commandLog = <<>>
    /\ written = <<>>

\* plugins/udp.py at import: the table is empty and no instance has a listener
InitMux ==
    /\ udpListenersByKey = EmptyDict
    /\ listeners = EmptyDict
    /\ listenerOf = [i \in UdpInstances |-> None]
    /\ mainPc = MainIdle
    /\ workers = EmptyDict
    /\ sockets = EmptyDict
    /\ events = EmptyDict
    /\ starts = [i \in UdpInstances |-> 0]
    /\ spawned = EmptyDict
    /\ nRecv = 0

\* Watchdog.__init__ and WatchdogPlugin.__init__
NewWatchdog(runOnFirst) ==
    [lastSeenSeverity |-> None, cooldownUntilTs |-> 0, runningRescue |-> FALSE,
     runOnFirst |-> runOnFirst]

InitWatchdogWith(runOnFirst) ==
    /\ wd = NewWatchdog(runOnFirst)
    /\ wdPlugin = [stopEvent |-> None, isSet |-> FALSE, threadObj |-> None,
                   started |-> FALSE]
    /\ wdLoop = [pc |-> "none", nowTs |-> 0, sevStr |-> None]
    /\ rescues = <<>>
    /\ wdMain = "idle"
    /\ wdObs = [attempts |-> 0, probeWrites |-> 0,
                last |-> [prev |-> None, cur |-> None, attempted |-> FALSE,
                          started |-> FALSE]]

InitWatchdog == InitWatchdogWith(FALSE)

\* MonitorApp.run is about to call self.start(): no call made yet
InitApp ==
    app = [phase |-> "start", idx |-> 1, startCalls |-> <<>>, stopCalls |-> <<>>,
           raised |-> <<>>, passes |-> 0]

Init == InitCore /\ InitThreads /\ InitLog /\ InitMux /\ InitWatchdog /\ InitApp

\* PluginBase.writeTable: the instance hands a row to the core
PluginWriteTable(i, row) ==
    /\ nWrites < MaxWrites
    /\ \E c \in {writeTable(Core, hostKeyOf(i), row)} : SetCore(c)
    /\ nWrites' = nWrites + 1
    /\ lastOp' = [op |-> "writeTable", hostKey |-> hostKeyOf(i), row |-> row]
    /\ UNCHANGED <<logMessages, registered, now, logVars, wdVars, appVars, udpVars>>

\* MonitorApp.buildPluginsFromConfig: each instance is registered once
RegisterPlugin(i) ==
    /\ \A k \in 1..Len(registered) : registered[k] # i
    /\ \E c \in {registerPlugin(Core, i)} : SetCore(c)
    /\ registered' = Append(registered, i)
    /\ lastOp' = [op |-> "registerPlugin", pluginObj |-> i]
    /\ UNCHANGED <<logMessages, nWrites, now, logVars, wdVars, appVars, udpVars>>

\* the operator enters a command
ExecCommand(rawCmd, raises) ==
    \E out \in {execCommand(Core, logMessages, rawCmd, raises)} :
       /\ Len(out.core.commandLog) <= MaxLogged
       /\ SetCore(out.core)
       /\ logMessages' = out.flags
       /\ lastOp' = [op |-> "execCommand", rawCmd |-> rawCmd, invoked |-> out.invoked,
                     raised |-> (raises /\ out.invoked # None)]
       /\ UNCHANGED <<nWrites, registered, now, logVars, wdVars, appVars, udpVars>>

\* the instances the table and command specifications run
CoreInstances == {"i1", "i2", "i3"}

WriteAny == \E i \in CoreInstances : \E row \in RowsOf(i) : PluginWriteTable(i, row)

RegisterAny == \E i \in CoreInstances : RegisterPlugin(i)

\* the table specification registers the instance of the second host only
TableInstances == {"i3"}

TableRegister == \E i \in TableInstances : RegisterPlugin(i)

TableDispatch == \E rawCmd \in TableCmds : ExecCommand(rawCmd, FALSE)

NextTable == WriteAny \/ TableRegister \/ TableDispatch

SpecTable == Init /\ [][NextTable]_vars

CmdDispatch == \E rawCmd \in CmdInputs : \E raises \in BOOLEAN : ExecCommand(rawCmd, raises)

NextCmd == RegisterAny \/ CmdDispatch

SpecCmd == Init /\ [][NextCmd]_vars

-----------------------------------------------------------------------------
(* Vocabulary of the claims about the status table *)

\* the key a source is stored under, and its base type (the part before ":")
SourceKey(source) == Lower(Strip(source))
BaseTypeOf(source) == SplitFirstChars(SourceKey(source), ":")

\* a type is display-enabled when its registered descriptor says showInTable
DisplayEnabled(baseType) ==
    /\ baseType \in DOMAIN pluginsByType
    /\ pluginsByType[baseType].showInTable

\* the host a write is for, and the row as written (stamped with that host)
WrittenHost(op) == op.hostKey
WrittenRow(op) == [op.row EXCEPT !.host = op.hostKey]

RowsAt(hosts, h) == IF h \in DOMAIN hosts THEN hosts[h].rowsBySource ELSE EmptyDict

\* C1: after a writeStatus(h, row) whose source base type is not
\* display-enabled (showInTable false, or not in the registry), the visible
\* row map of h does not contain the source, and the secondary cache entry
\* for (h, base type) equals the written row.
C1_HiddenWriteCachedNotShown ==
    (lastOp.op = "writeTable" /\ ~DisplayEnabled(BaseTypeOf(lastOp.row.source))) =>
        LET h == WrittenHost(lastOp)
            src == lastOp.row.source
        IN /\ SourceKey(src) \notin DOMAIN RowsAt(hostsByName, h)
           /\ src \notin DOMAIN RowsAt(hostsByName, h)
           /\ <<h, BaseTypeOf(src)>> \in DOMAIN lastRowByHostBaseType
           /\ lastRowByHostBaseType[<<h, BaseTypeOf(src)>>] = WrittenRow(lastOp)

\* a row of an unregistered type, written without a host and stamped by the
\* core, sits in the cache and not in the table
C1_Witness ==
    /\ lastOp.op = "writeTable"
    /\ lastOp.row.source = "nope"
    /\ lastOp.row.host = ""
    /\ <<"db1", "nope">> \in DOMAIN lastRowByHostBaseType
    /\ lastRowByHostBaseType[<<"db1", "nope">>].host = "db1"
    /\ "db1" \in DOMAIN hostsByName

\* C2: a write to a (host, source) key of a display-enabled type leaves
\* exactly one row under that key, the row just written; the rows under the
\* other keys of the host are the ones that were there before.
C2_LatestWriteSupersedes ==
    [][(lastOp'.op = "writeTable" /\ nWrites' = nWrites + 1
          /\ DisplayEnabled(BaseTypeOf(lastOp'.row.source))) =>
        LET h == WrittenHost(lastOp')
            key == SourceKey(lastOp'.row.source)
            before == RowsAt(hostsByName, h)
            after == RowsAt(hostsByName', h)
        IN /\ key \in DOMAIN after
           /\ after[key] = WrittenRow(lastOp')
           /\ Cardinality({k \in DOMAIN after : SourceKey(after[k].source) = key}) = 1
           /\ (DOMAIN after) \ {key} = (DOMAIN before) \ {key}
           /\ \A k \in (DOMAIN after) \ {key} : after[k] = before[k]]_vars

\* two writes, both to the key processes:nginx of db1 (spelt differently),
\* the second one visible
C2_Witness ==
    /\ nWrites = 2
    /\ lastOp.op = "writeTable"
    /\ lastOp.row.source = "processes:Nginx"
    /\ lastOp.row.text = "down"
    /\ DOMAIN hostsByName = {"db1"}
    /\ DOMAIN lastRowByHostBaseType = {<<"db1", "processes">>}
    /\ DOMAIN hostsByName["db1"].rowsBySource = {"processes:nginx"}
    /\ hostsByName["db1"].rowsBySource["processes:nginx"].text = "down"

\* C3: in every reachable state every key of every host's visible row map
\* has a base type whose registered descriptor has showInTable = true.
C3_VisibleRowsDisplayEnabled ==
    \A h \in DOMAIN hostsByName :
        \A k \in DOMAIN hostsByName[h].rowsBySource :
            DisplayEnabled(SplitFirstChars(k, ":"))

\* after writes, a registration and a dispatch: a host shows a row while the
\* cache also holds a row of a type that is not displayed
C3_Witness ==
    /\ registered # <<>>
    /\ lastOp.op = "execCommand"
    /\ \E h \in DOMAIN hostsByName :
         /\ DOMAIN hostsByName[h].rowsBySource # {}
         /\ <<h, "ssh">> \in DOMAIN lastRowByHostBaseType

\* getLastSeverity reads the cache entry's severity, none when there is none
SeverityIsCached ==
    \A h \in {"db1", " db1 ", "Web"} :
        \A bt \in {"processes", "ssh", "SSH ", "nope", "udp"} :
            getLastSeverity(Core, h, bt) =
                IF <<Strip(h), Lower(Strip(bt))>> \in DOMAIN lastRowByHostBaseType
                THEN lastRowByHostBaseType[<<Strip(h), Lower(Strip(bt))>>].severity
                ELSE None

\* C4: the secondary cache entry for (host, base type) is the row of the most
\* recent write stamped with that host whose source has that base type,
\* whatever the sub-source and whether or not the type is displayed: the
\* cache starts empty, a write sets exactly its own entry to the written row,
\* nothing else changes the cache; getLastSeverity returns the entry's
\* severity and none when there is no entry.
C4_CacheHoldsLatestWrite ==
    /\ []SeverityIsCached
    /\ [][/\ (nWrites = 0 => lastRowByHostBaseType = EmptyDict)
          /\ IF lastOp'.op = "writeTable" /\ nWrites' = nWrites + 1
             THEN LET e == <<WrittenHost(lastOp'), BaseTypeOf(lastOp'.row.source)>>
                  IN /\ e \in DOMAIN lastRowByHostBaseType'
                     /\ lastRowByHostBaseType'[e] = WrittenRow(lastOp')
                     /\ (DOMAIN lastRowByHostBaseType') \ {e}
                            = (DOMAIN lastRowByHostBaseType) \ {e}
                     /\ \A f \in (DOMAIN lastRowByHostBaseType') \ {e} :
                            lastRowByHostBaseType'[f] = lastRowByHostBaseType[f]
             ELSE lastRowByHostBaseType' = lastRowByHostBaseType]_vars

\* the entry of (db1, processes) was written last under a sub-source, the
\* entry of (db1, ssh) belongs to a type that is not displayed
C4_Witness ==
    /\ <<"db1", "processes">> \in DOMAIN lastRowByHostBaseType
    /\ lastRowByHostBaseType[<<"db1", "processes">>].source = "processes:Nginx"
    /\ <<"db1", "ssh">> \in DOMAIN lastRowByHostBaseType
    /\ getLastSeverity(Core, " db1 ", "SSH ") = "bad"

-----------------------------------------------------------------------------
(* MonitorCore.writeLog: one caller at a time, and as several threads run  *)
(* it statement by statement                                               *)

MaxLogWrites == 515
MaxCallsPerThread == 2

\* str(n) of a natural number
RECURSIVE str(_)
str(n) == IF n < 10 THEN Digits[n + 1] ELSE str(n \div 10) \o Digits[(n % 10) + 1]

\* a whole writeLog call, made while no other call is under way
LogWrite ==
    /\ Len(written) < MaxLogWrites
    /\ \A t \in Threads : tpc[t] = "idle"
    /\ \E msg \in {"line " \o str(Len(written) + 1)} :
         /\ commandLog' = writeLogList(commandLog, now, msg)
         /\ written' = Append(written, <<now, msg>>)
    /\ UNCHANGED <<hostsByName, hostOrder, selectedIndex, statusMsg,
                   lastRowByHostBaseType, logMessages, lastOp, nWrites, registered, now,
                   logLock, tpc, tline, tslice, tcalls, writers,
                   udpVars, wdVars, appVars>>

NextLogSeq == LogWrite

SpecLogSeq == Init /\ [][NextLogSeq]_vars

\* the log after maxLogLines - 1 calls of LogWrite
OldLines == [k \in 1..(maxLogLines - 1) |-> <<1, "line " \o str(k)>>]

\* the threaded specification starts with an empty log or with one that is
\* one line short of its capacity
InitLogThreads ==
    /\ commandLog \in {<<>>, OldLines}
    /\ written = commandLog

\* `with self.logLock`: the lock can be taken
LockAvailableAlways == TRUE

LockAvailable == logLock = None

threadFrame == <<hostsByName, hostOrder, selectedIndex, statusMsg,
                 lastRowByHostBaseType, logMessages, lastOp, nWrites, registered, now,
                 udpVars, wdVars, appVars, writers>>

\* tsStr = time.strftime(...); line = f"[{tsStr}] {msg}"
LogBegin(t) ==
    /\ tpc[t] = "idle"
    /\ tcalls[t] < MaxCallsPerThread
    /\ \E msg \in {t \o "#" \o str(tcalls[t] + 1)} :
         tline' = [tline EXCEPT ![t] = <<now, msg>>]
    /\ tcalls' = [tcalls EXCEPT ![t] = @ + 1]
    /\ tpc' = [tpc EXCEPT ![t] = "acquire"]
    /\ UNCHANGED <<threadFrame, commandLog, logLock, tslice, written>>

\* with self.logLock:
LogAcquire(t) ==
    /\ tpc[t] = "acquire"
    /\ LockAvailable
    /\ logLock' = t
    /\ written' = Append(written, tline[t])
    /\ tpc' = [tpc EXCEPT ![t] = "append"]
    /\ UNCHANGED <<threadFrame, commandLog, tline, tslice, tcalls>>

\* self.commandLog.append(line)
LogAppend(t) ==
    /\ tpc[t] = "append"
    /\ commandLog' = Append(commandLog, tline[t])
    /\ tpc' = [tpc EXCEPT ![t] = "check"]
    /\ UNCHANGED <<threadFrame, logLock, tline, tslice, tcalls, written>>

\* if len(self.commandLog) > self.maxLogLines:
LogCheck(t) ==
    /\ tpc[t] = "check"
    /\ tpc' = [tpc EXCEPT ![t] = IF Len(commandLog) > maxLogLines THEN "slice" ELSE "release"]
    /\ UNCHANGED <<threadFrame, commandLog, logLock, tline, tslice, tcalls, written>>

\* the right-hand side self.commandLog[-self.maxLogLines:]
LogSlice(t) ==
    /\ tpc[t] = "slice"
    /\ tslice' = [tslice EXCEPT ![t] = LastN(commandLog, maxLogLines)]
    /\ tpc' = [tpc EXCEPT ![t] = "assign"]
    /\ UNCHANGED <<threadFrame, commandLog, logLock, tline, tcalls, written>>

\* self.commandLog = <the slice>
LogAssign(t) ==
    /\ tpc[t] = "assign"
    /\ commandLog' = tslice[t]
    /\ tslice' = [tslice EXCEPT ![t] = <<>>]
    /\ tpc' = [tpc EXCEPT ![t] = "release"]
    /\ UNCHANGED <<threadFrame, logLock, tline, tcalls, written>>

\* leaving the with block
LogRelease(t) ==
    /\ tpc[t] = "release"
    /\ logLock' = None
    /\ tpc' = [tpc EXCEPT ![t] = "idle"]
    /\ UNCHANGED <<threadFrame, commandLog, tline, tslice, tcalls, written>>

NextLog ==
    \E t \in Threads :
        \/ LogBegin(t)
        \/ LogAcquire(t)
        \/ LogAppend(t)
        \/ LogCheck(t)
        \/ LogSlice(t)
        \/ LogAssign(t)
        \/ LogRelease(t)

InitConcurrent ==
    InitCore /\ InitThreads /\ InitLogThreads /\ InitMux /\ InitWatchdog /\ InitApp

SpecLog == InitConcurrent /\ [][NextLog]_vars

-----------------------------------------------------------------------------
(* Claims about the log *)

\* C5: after N writeLog calls the buffer holds the last C lines in the order
\* written when N exceeds the capacity C, and all N lines in order otherwise.
C5_LogKeepsLastLines ==
    LET N == Len(written)
    IN IF N > maxLogLines
       THEN /\ Len(commandLog) = maxLogLines
            /\ \A k \in 1..maxLogLines : commandLog[k] = written[N - maxLogLines + k]
       ELSE commandLog = written

\* three lines more than the capacity were written; the oldest kept is the fourth
C5_Witness ==
    /\ Len(written) = maxLogLines + 3
    /\ Len(commandLog) = maxLogLines
    /\ commandLog[1] = written[4]
    /\ commandLog[maxLogLines] = <<1, "line 515">>

\* the sequential specification passes through the start state of the threaded one
LogSeqReachesOldLines == commandLog = OldLines /\ written = OldLines

\* C6: writeLog under concurrent calls: every call appends exactly its own
\* line, nothing but a call holding the lock changes the buffer, and whenever
\* the lock is free the buffer holds the lines in the order the callers took
\* the lock, cut to the capacity (none lost, none duplicated).
C6_ConcurrentWriteLogSafe ==
    /\ [](logLock = None =>
            /\ Len(commandLog) <= maxLogLines
            /\ commandLog = LastN(written, maxLogLines))
    /\ [][\A t \in Threads :
            /\ (tpc[t] = "append" /\ tpc'[t] = "check") =>
                   commandLog' = Append(commandLog, tline[t])
            /\ (commandLog' # commandLog) => logLock # None]_vars

\* both threads have completed two calls each on a log that was one line
\* short of full; the three oldest lines are gone
C6_Witness ==
    /\ logLock = None
    /\ \A t \in Threads : tcalls[t] = 2 /\ tpc[t] = "idle"
    /\ Len(written) = maxLogLines + 3
    /\ Len(commandLog) = maxLogLines
    /\ commandLog[1] = <<1, "line 4">>

-----------------------------------------------------------------------------
(* Claims about command registration and dispatch *)

\* the keys an instance declares
KeysOf(i) == {commandsOf(i)[k].key : k \in 1..Len(commandsOf(i))} \ {"", None}

\* the command an instance declares under a key (the last one, if several)
DeclaredBy(i, key) ==
    LET at == {k \in 1..Len(commandsOf(i)) : commandsOf(i)[k].key = key}
    IN commandsOf(i)[Max(at)]

\* the positions in the registration order of the instances of host h that
\* declared key
RegistrantsOf(h, key) ==
    {k \in 1..Len(registered) : hostKeyOf(registered[k]) = h /\ key \in KeysOf(registered[k])}

\* C7: when two instances registered a command under the same key of the same
\* host, the host's command map holds the second one's command, its payload
\* stamped with the second one's type, and dispatching the key runs
\* execCommand of the second instance, never of the first.
C7_SecondRegistrationWins ==
    \A h \in DOMAIN hostsByName :
        \A key \in {"t", "R"} :
            Cardinality(RegistrantsOf(h, key)) >= 2 =>
                LET second == registered[Max(RegistrantsOf(h, key))]
                    cmd == DeclaredBy(second, key)
                IN /\ key \in DOMAIN hostsByName[h].commandsByKey
                   /\ hostsByName[h].commandsByKey[key] =
                          CommandSpec(key, cmd.label,
                                      Put(cmd.payload, "plugin", typeNameOf(second)))
                   /\ (/\ lastOp.op = "execCommand"
                       /\ Strip(lastOp.rawCmd) = key
                       /\ selectedHost(Core) = h) =>
                           /\ lastOp.invoked = second
                           /\ \A k \in RegistrantsOf(h, key) \ {Max(RegistrantsOf(h, key))} :
                                  lastOp.invoked # registered[k]

\* ssh registered "t" first, ping second; the operator typed " t " with db1
\* selected and ping's execCommand ran
C7_Witness ==
    /\ registered = <<"i2", "i1">>
    /\ lastOp.op = "execCommand"
    /\ lastOp.rawCmd = " t "
    /\ lastOp.invoked = "i1"
    /\ hostsByName["db1"].commandsByKey["t"].label = "tracert"

-----------------------------------------------------------------------------
(* The endpoint multiplexer (plugins/udp.py) *)

\* utils.parseStr: the stripped string, None for None and for a blank one
parseStr(val) == IF val = None \/ Strip(val) = "" THEN None ELSE Strip(val)

\* utils.parseStrList on a list
RECURSIVE parseStrList(_)
parseStrList(val) ==
    IF val = <<>> THEN <<>>
    ELSE IF parseStr(Head(val)) = None THEN parseStrList(Tail(val))
    ELSE <<parseStr(Head(val))>> \o parseStrList(Tail(val))

\* the udp section of each host, merged with defaultParams by the loader;
\* host and name are the identity of the configuration file
UdpParams ==
    [i \in UdpInstances |->
        [bindIp |-> "0.0.0.0",
         port |-> IF i = "i5" THEN 5001 ELSE 5000,
         emitEverySec |-> 1,
         okAfterSec |-> 1,
         offlineAfterSec |-> 2,
         serviceName |-> "UDP",
         showPacketStats |-> TRUE,
         aliases |-> IF i = "i3" THEN <<"Cam-A", " ">> ELSE <<>>,
         host |-> CASE i = "i3" -> "10.0.0.7" [] i = "i4" -> " 10.0.0.9"
                    [] i = "i7" -> "10.0.0.8" [] i = "i8" -> "10.0.0.7 "
                    [] OTHER -> "gw",
         name |-> InstanceConfig[i].name]]

\* UdpPlugin.__init__: self.aliases, the configured aliases followed by host
\* and name unless already there in another case
udpAliases(i) ==
    LET add(lst, str1) ==
            IF str1 # None /\ \A k \in 1..Len(lst) : Lower(lst[k]) # Lower(str1)
            THEN Append(lst, str1) ELSE lst
    IN add(add(parseStrList(UdpParams[i].aliases), parseStr(UdpParams[i].host)),
           parseStr(UdpParams[i].name))

\* the key of the process-wide table
endpointKey(i) == <<UdpParams[i].bindIp, UdpParams[i].port>>

\* HostStats.__init__; pps is the quotient <<dp, dt>> of two integers
HostStats ==
    [lastSeenTs |-> 0, packetCount |-> 0, byteCount |-> 0,
     lastRateTs |-> 0, lastRatePacketCount |-> 0, pps |-> <<0, 1>>]

\* UdpListener.__init__
UdpListener(bindIp, port, emitEverySec) ==
    [bindIp |-> bindIp, port |-> port, emitEverySec |-> emitEverySec,
     sockObj |-> None, stopEvent |-> None, threadObj |-> None,
     keyMapLower |-> EmptyDict, statsByHost |-> EmptyDict, subsByHost |-> EmptyDict]

\* dict.get(k, d)
Get(m, k, d) == IF k \in DOMAIN m THEN m[k] ELSE d

\* dict.setdefault(k, d) as the dict it leaves
SetDefault(m, k, d) == IF k \in DOMAIN m THEN m ELSE Put(m, k, d)

\* the loop of addSub that maps every alias to the host key
RECURSIVE mapAliases(_, _, _)
mapAliases(keyMapLower, aliasList, hostKey) ==
    IF aliasList = <<>> THEN keyMapLower
    ELSE mapAliases(Put(keyMapLower, Lower(Head(aliasList)), hostKey), Tail(aliasList),
                    hostKey)

\* UdpListener.addSub, the part under the listener's lock
addSub(l, pluginObj, aliases) ==
    LET hostKey == hostKeyOf(pluginObj)
        aliasList == parseStrList(aliases)
    IN [l EXCEPT
          !.subsByHost = Put(@, hostKey, Append(Get(@, hostKey, <<>>), pluginObj)),
          !.keyMapLower = mapAliases(Put(@, Lower(hostKey), hostKey), aliasList, hostKey),
          !.statsByHost = SetDefault(@, hostKey, HostStats)]

\* [p for p in lst if p is not pluginObj]
RECURSIVE without(_, _)
without(lst, pluginObj) ==
    IF lst = <<>> THEN <<>>
    ELSE IF Head(lst) = pluginObj THEN without(Tail(lst), pluginObj)
    ELSE <<Head(lst)>> \o without(Tail(lst), pluginObj)

\* a variant of removeSub that leaves the subscriber in its list
removeSubKeeps(l, pluginObj) == l

\* a variant of removeSub that purges the host although subscribers remain
removeSubPurges(l, pluginObj) ==
    LET hostKey == hostKeyOf(pluginObj)
        lst == without(Get(l.subsByHost, hostKey, <<>>), pluginObj)
    IN [l EXCEPT
          !.subsByHost = IF lst # <<>> THEN Put(@, hostKey, lst) ELSE Drop(@, hostKey),
          !.statsByHost = Drop(@, hostKey),
          !.keyMapLower = [k \in {j \in DOMAIN @ : @[j] # hostKey} |-> @[k]]]

\* a variant of removeSub that leaves the aliases of a host without subscribers
removeSubLeavesAliases(l, pluginObj) ==
    LET hostKey == hostKeyOf(pluginObj)
        lst == without(Get(l.subsByHost, hostKey, <<>>), pluginObj)
    IN IF lst # <<>>
       THEN [l EXCEPT !.subsByHost = Put(@, hostKey, lst)]
       ELSE [l EXCEPT !.subsByHost = Drop(@, hostKey), !.statsByHost = Drop(@, hostKey)]

\* UdpListener.removeSub
removeSub(l, pluginObj) ==
    LET hostKey == hostKeyOf(pluginObj)
        lst == without(Get(l.subsByHost, hostKey, <<>>), pluginObj)
        toDelete == {k \in DOMAIN l.keyMapLower : l.keyMapLower[k] = hostKey}
    IN IF lst # <<>>
       THEN [l EXCEPT !.subsByHost = Put(@, hostKey, lst)]
       ELSE [l EXCEPT
               !.subsByHost = Drop(@, hostKey),
               !.statsByHost = Drop(@, hostKey),
               !.keyMapLower = [k \in (DOMAIN @) \ toDelete |-> @[k]]]

\* a variant of updateRatesLocked without the baseline: the first emission
\* already divides the packets counted so far by the clock's reading
updateRatesUnseeded(statsByHost, nowTs) ==
    [h \in DOMAIN statsByHost |->
        LET st == statsByHost[h]
            dt == nowTs - st.lastRateTs
            dp == st.packetCount - st.lastRatePacketCount
        IN IF dt <= 0 THEN st
           ELSE [st EXCEPT !.pps = <<IF dp > 0 THEN dp ELSE 0, dt>>,
                           !.lastRateTs = nowTs,
                           !.lastRatePacketCount = st.packetCount]]

\* UdpListener.updateRatesLocked
updateRatesLocked(statsByHost, nowTs) ==
    [h \in DOMAIN statsByHost |->
        LET st == statsByHost[h]
            dt == nowTs - st.lastRateTs
            dp == st.packetCount - st.lastRatePacketCount
        IN IF st.lastRateTs <= 0
           THEN [st EXCEPT !.lastRateTs = nowTs,
                           !.lastRatePacketCount = st.packetCount,
                           !.pps = <<0, 1>>]
           ELSE IF dt <= 0 THEN st
           ELSE [st EXCEPT !.pps = <<IF dp > 0 THEN dp ELSE 0, dt>>,
                           !.lastRateTs = nowTs,
                           !.lastRatePacketCount = st.packetCount]]

\* the datagram texts that json.loads accepts, with the object they denote
JsonTexts == [rawStr \in {"{\"name\": \"db1\"}"} |-> [name |-> "db1"]]

\* UdpListener.parseIncomingKey
parseIncomingKey(rawStr, senderIp) ==
    LET incomingKey == IF rawStr \in DOMAIN JsonTexts
                       THEN parseStr(JsonTexts[rawStr].name) ELSE None
    IN IF incomingKey = None THEN parseStr(senderIp) ELSE incomingKey

\* a variant that lets the name in the payload decide
matchPayloadName(keyMapLower, senderIp, rawStr) ==
    LET incomingKey == parseIncomingKey(rawStr, senderIp)
    IN IF incomingKey # None THEN Get(keyMapLower, Lower(incomingKey), None) ELSE None

\* UdpListener.loop: the canonical host of a datagram, by its sender only
matchSender(keyMapLower, senderIp, rawStr) ==
    IF senderIp # None /\ senderIp # ""
    THEN Get(keyMapLower, Lower(senderIp), None)
    ELSE None

\* UdpListener.loop: the statistics after a datagram of dataLen bytes
countPacket(l, canonical, nowTs, dataLen) ==
    IF canonical = None \/ canonical = "" THEN l
    ELSE LET st == Get(l.statsByHost, canonical, HostStats)
         IN [l EXCEPT !.statsByHost =
                Put(@, canonical, [st EXCEPT !.lastSeenTs = nowTs,
                                             !.packetCount = @ + 1,
                                             !.byteCount = @ + dataLen])]

\* f"{x:.1f}" of the quotient pps[1] / pps[2], rounded half to even
formatPps(pps) ==
    LET q == (10 * pps[1]) \div pps[2]
        r == (10 * pps[1]) % pps[2]
        tenths == IF 2 * r > pps[2] THEN q + 1
                  ELSE IF 2 * r < pps[2] THEN q
                  ELSE IF q % 2 = 0 THEN q ELSE q + 1
    IN str(tenths \div 10) \o "." \o str(tenths % 10)

\* UdpPlugin.start: the row written before subscribing
offlineRow(pluginObj) ==
    TableRow(hostKeyOf(pluginObj), None, "udp",
             UdpParams[pluginObj].serviceName \o ": OFFLINE" \o
                 (IF UdpParams[pluginObj].showPacketStats THEN " (udpPps=0.0)" ELSE ""),
             "bad", 0)

\* a variant of the classification whose thresholds are exclusive
staleSeverityStrict(lastSeen, nowTs, okAfterSec, offlineAfterSec) ==
    LET age == nowTs - lastSeen
    IN IF lastSeen <= 0 THEN "bad"
       ELSE IF age > offlineAfterSec THEN "bad"
       ELSE IF age > okAfterSec THEN "warn"
       ELSE "ok"

\* UdpPlugin.emitStatus: the severity of a host last seen at lastSeen
staleSeverity(lastSeen, nowTs, okAfterSec, offlineAfterSec) ==
    LET age == nowTs - lastSeen
    IN IF lastSeen <= 0 THEN "bad"
       ELSE IF age >= offlineAfterSec THEN "bad"
       ELSE IF age >= okAfterSec THEN "warn"
       ELSE "ok"

\* UdpPlugin.emitStatus of an instance with the thresholds okAfterSec and
\* offlineAfterSec: the row it writes
emitStatusWith(pluginObj, okAfterSec, offlineAfterSec, nowTs, st) ==
    LET lastSeen == st.lastSeenTs
        sev == staleSeverity(lastSeen, nowTs, okAfterSec, offlineAfterSec)
        txt == IF sev = "bad" THEN "OFFLINE" ELSE IF sev = "warn" THEN "WARN" ELSE "OK"
        suffix == IF UdpParams[pluginObj].showPacketStats
                  THEN " (udpPps=" \o formatPps(st.pps) \o ")" ELSE ""
    IN TableRow(hostKeyOf(pluginObj), None, "udp",
                UdpParams[pluginObj].serviceName \o ": " \o txt \o suffix,
                sev, IF lastSeen <= 0 THEN 0 ELSE lastSeen)

\* UdpPlugin.emitStatus: the row it writes
emitStatusRow(pluginObj, nowTs, st) ==
    emitStatusWith(pluginObj, UdpParams[pluginObj].okAfterSec,
                   UdpParams[pluginObj].offlineAfterSec, nowTs, st)

\* MonitorApp.buildPluginsFromConfig: the elements in the order of the
\* configuration, each with the order value of its host
Elements == <<"i4", "i5", "i3">>

ElementOrder ==
    [i \in Instances |-> CASE i = "i5" -> 2 [] i = "i3" -> 3 [] OTHER -> 1]

\* hostOrderMap: the least order value among the elements of a host
hostOrderMap(elems, hostKey) ==
    LET vals == {ElementOrder[elems[k]] :
                    k \in {j \in 1..Len(elems) : hostKeyOf(elems[j]) = hostKey}}
    IN IF vals = {} THEN 1000 ELSE Min(vals)

\* sorted(hostOrder, key=...): the hosts by ascending order value
RECURSIVE sortedHosts(_, _)
sortedHosts(elems, hosts) ==
    IF hosts = {} THEN <<>>
    ELSE LET first == CHOOSE h \in hosts :
                          \A g \in hosts : hostOrderMap(elems, h) <= hostOrderMap(elems, g)
         IN <<first>> \o sortedHosts(elems, hosts \ {first})

RECURSIVE registerAll(_, _)
registerAll(c, elems) ==
    IF elems = <<>> THEN c ELSE registerAll(registerPlugin(c, Head(elems)), Tail(elems))

buildPluginsFromConfig(c, elems) ==
    LET c1 == registerAll(c, elems)
        c2 == [c1 EXCEPT !.hostOrder =
                  sortedHosts(elems, {c1.hostOrder[k] : k \in 1..Len(c1.hostOrder)})]
    IN afterSelectedHost(c2)

\* the core once the application has built the plugins of elems
InitBuiltFrom(elems) ==
    LET c0 == [hostsByName |-> EmptyDict, hostOrder |-> <<>>, selectedIndex |-> 0,
               commandLog |-> <<>>, statusMsg |-> "ready",
               lastRowByHostBaseType |-> EmptyDict]
        c == buildPluginsFromConfig(c0, elems)
    IN /\ hostsByName = c.hostsByName
       /\ hostOrder = c.hostOrder
       /\ selectedIndex = c.selectedIndex
       /\ statusMsg = c.statusMsg
       /\ lastRowByHostBaseType = c.lastRowByHostBaseType
       /\ logMessages = [i \in Instances |-> FALSE]
       /\ lastOp = [op |-> "init"]
       /\ nWrites = 0
       /\ registered = elems
       /\ now = 1

InitBuilt == InitBuiltFrom(Elements)

InitUdp == InitBuilt /\ InitThreads /\ InitLog /\ InitMux /\ InitWatchdog /\ InitApp

\* bounds of the traffic: the datagrams that arrive and the clock's last reading
MaxPackets == 1
MaxTime == 2

\* the datagrams that arrive: the sender's address and the text
SenderIps == {"10.0.0.7", "10.0.0.8"}
RawStrs == {"hi", "{\"name\": \"db1\"}"}

\* the frame of a thread that has just been started on loop()
NewFrame ==
    [pc |-> "new", nowTs |-> 0, nextEmitTs |-> 0, rawStr |-> "", subsSnap |-> <<>>,
     statsSnap |-> EmptyDict, subsByHostSnap |-> EmptyDict]

\* a variant of the test in UdpListener.start that always starts a thread
needsThreadAlways(l) == TRUE

\* UdpListener.start: no thread is started when there is one
needsThread(l) == l.threadObj = None

\* UdpPlugin.start: the OFFLINE row, then get-or-create of the listener and
\* addSub under _udpLockObj; addSub ends with listener.start().  The
\* application starts every instance once.
UdpStart(u) ==
    /\ mainPc = MainIdle
    /\ starts[u] = 0
    /\ starts' = [starts EXCEPT ![u] = @ + 1]
    /\ \E c \in {writeTable(Core, hostKeyOf(u), offlineRow(u))} : SetCore(c)
    /\ LET key == endpointKey(u)
           isNew == key \notin DOMAIN udpListenersByKey
           id == IF isNew THEN "L" \o str(Cardinality(DOMAIN listeners) + 1)
                 ELSE udpListenersByKey[key]
           made == IF isNew
                   THEN UdpListener(UdpParams[u].bindIp, UdpParams[u].port,
                                    UdpParams[u].emitEverySec)
                   ELSE listeners[id]
           subbed == addSub(made, u, udpAliases(u))
           spawn == needsThread(subbed)
       IN /\ udpListenersByKey' = Put(udpListenersByKey, key, id)
          /\ listeners' = Put(listeners, id,
                              IF spawn
                              THEN [subbed EXCEPT !.stopEvent = "event", !.threadObj = "thread"]
                              ELSE subbed)
          /\ listenerOf' = [listenerOf EXCEPT ![u] = id]
          /\ workers' = IF spawn THEN Put(workers, id, NewFrame) ELSE workers
          /\ sockets' = IF spawn THEN Put(sockets, id, "none") ELSE sockets
          /\ events' = IF spawn THEN Put(events, id, FALSE) ELSE events
          /\ spawned' = IF spawn THEN Put(spawned, id, Get(spawned, id, 0) + 1) ELSE spawned
    /\ UNCHANGED <<logMessages, lastOp, nWrites, registered, now, logVars, wdVars, appVars, mainPc, nRecv>>

\* UdpPlugin.stop up to the test of hasSubs in stopIfIdle; the call ends here
\* when the instance has no listener or the listener keeps subscribers
UdpStop(u) ==
    /\ mainPc = MainIdle
    /\ IF listenerOf[u] = None
       THEN UNCHANGED <<udpListenersByKey, listeners, listenerOf, mainPc>>
       ELSE LET key == endpointKey(u)
                id == Get(udpListenersByKey, key, None)
            IN IF id = None
               THEN /\ listenerOf' = [listenerOf EXCEPT ![u] = None]
                    /\ UNCHANGED <<udpListenersByKey, listeners, mainPc>>
               ELSE LET l == removeSub(listeners[id], u)
                    IN /\ listeners' = Put(listeners, id, l)
                       /\ IF DOMAIN l.subsByHost # {}
                          THEN /\ udpListenersByKey' =
                                      IF l.threadObj = None
                                      THEN Drop(udpListenersByKey, key)
                                      ELSE udpListenersByKey
                               /\ listenerOf' = [listenerOf EXCEPT ![u] = None]
                               /\ UNCHANGED mainPc
                          ELSE /\ mainPc' = [step |-> "signal", pluginObj |-> u,
                                             listener |-> id]
                               /\ UNCHANGED <<udpListenersByKey, listenerOf>>
    /\ UNCHANGED <<coreVars, logVars, wdVars, appVars, workers, sockets, events, starts, spawned, nRecv>>

\* stopIfIdle: self.stopEvent.set()
UdpStopSignal ==
    /\ mainPc.step = "signal"
    /\ events' = IF listeners[mainPc.listener].stopEvent # None
                 THEN [events EXCEPT ![mainPc.listener] = TRUE] ELSE events
    /\ mainPc' = [mainPc EXCEPT !.step = "close"]
    /\ UNCHANGED <<coreVars, logVars, wdVars, appVars, udpListenersByKey, listeners, listenerOf, workers,
                   sockets, starts, spawned, nRecv>>

\* stopIfIdle: self.sockObj.close() when there is a socket
UdpStopClose ==
    /\ mainPc.step = "close"
    /\ sockets' = IF listeners[mainPc.listener].sockObj # None
                  THEN [sockets EXCEPT ![mainPc.listener] = "closed"] ELSE sockets
    /\ mainPc' = [mainPc EXCEPT !.step = "clear"]
    /\ UNCHANGED <<coreVars, logVars, wdVars, appVars, udpListenersByKey, listeners, listenerOf, workers,
                   events, starts, spawned, nRecv>>

\* stopIfIdle clears the three fields; stop() drops the listener from the
\* table when it has no thread, and forgets it
UdpStopClear ==
    /\ mainPc.step = "clear"
    /\ LET id == mainPc.listener
           l == [listeners[id] EXCEPT !.sockObj = None, !.stopEvent = None,
                                       !.threadObj = None]
       IN /\ listeners' = Put(listeners, id, l)
          /\ udpListenersByKey' =
                 IF l.threadObj = None
                 THEN Drop(udpListenersByKey, endpointKey(mainPc.pluginObj))
                 ELSE udpListenersByKey
    /\ listenerOf' = [listenerOf EXCEPT ![mainPc.pluginObj] = None]
    /\ mainPc' = MainIdle
    /\ UNCHANGED <<coreVars, logVars, wdVars, appVars, workers, sockets, events, starts, spawned, nRecv>>

SetFrame(id, frame) == workers' = [workers EXCEPT ![id] = frame]

\* loop(): the socket is made, stored in self.sockObj and bound
WOpen(id) ==
    /\ workers[id].pc = "new"
    /\ sockets' = [sockets EXCEPT ![id] = "open"]
    /\ listeners' = [listeners EXCEPT ![id].sockObj = "sock"]
    /\ SetFrame(id, [workers[id] EXCEPT !.pc = "check"])
    /\ UNCHANGED <<coreVars, logVars, wdVars, appVars, udpListenersByKey, listenerOf, mainPc, events,
                   starts, spawned, nRecv>>

\* the loop condition, first half: self.stopEvent is not None
WCheck(id) ==
    /\ workers[id].pc = "check"
    /\ SetFrame(id, [workers[id] EXCEPT
                        !.pc = IF listeners[id].stopEvent = None THEN "exited" ELSE "check2"])
    /\ UNCHANGED <<coreVars, logVars, wdVars, appVars, udpListenersByKey, listeners, listenerOf, mainPc,
                   sockets, events, starts, spawned, nRecv>>

\* the loop condition, second half: self.stopEvent is read again for
\* is_set(); then nowTs = time.time()
WCheckSet(id) ==
    /\ workers[id].pc = "check2"
    /\ SetFrame(id, IF listeners[id].stopEvent = None
                    THEN [workers[id] EXCEPT !.pc = "crashed"]
                    ELSE IF events[id]
                    THEN [workers[id] EXCEPT !.pc = "exited"]
                    ELSE [workers[id] EXCEPT !.pc = "recv", !.nowTs = now])
    /\ UNCHANGED <<coreVars, logVars, wdVars, appVars, udpListenersByKey, listeners, listenerOf, mainPc,
                   sockets, events, starts, spawned, nRecv>>

\* recvfrom returns a datagram; attribution and counting under the lock
recvfrom(id, senderIp, dataStr) ==
    /\ workers[id].pc = "recv"
    /\ sockets[id] = "open"
    /\ nRecv' = nRecv + 1
    /\ LET l == listeners[id]
           rawStr == Strip(dataStr)
           canonical == matchSender(l.keyMapLower, senderIp, rawStr)
           hit == canonical # None /\ canonical # ""
           subsSnap == IF hit THEN Get(l.subsByHost, canonical, <<>>) ELSE <<>>
           logEnabled == \E k \in 1..Len(subsSnap) : logMessages[subsSnap[k]]
       IN /\ listeners' = [listeners EXCEPT
                              ![id] = countPacket(l, canonical, workers[id].nowTs,
                                                  Len(dataStr))]
          /\ SetFrame(id, IF hit /\ subsSnap # <<>> /\ logEnabled
                          THEN [workers[id] EXCEPT !.pc = "forward", !.rawStr = rawStr,
                                                   !.subsSnap = subsSnap]
                          ELSE [workers[id] EXCEPT !.pc = "emit"])
          /\ lastOp' = [op |-> "recvfrom", listener |-> id, senderIp |-> senderIp,
                        dataStr |-> dataStr, canonical |-> canonical]
    /\ UNCHANGED <<hostsByName, hostOrder, selectedIndex, commandLog, statusMsg,
                   lastRowByHostBaseType, logMessages, nWrites, registered, now, logVars, wdVars, appVars,
                   udpListenersByKey, listenerOf, mainPc, sockets, events, starts, spawned>>

\* at most MaxPackets datagrams arrive
WRecv(id, senderIp, dataStr) ==
    /\ nRecv < MaxPackets
    /\ recvfrom(id, senderIp, dataStr)

\* a variant that hands the payload to every subscriber of the snapshot
RECURSIVE forwardAllUnfiltered(_, _, _)
forwardAllUnfiltered(c, subs, rawStr) ==
    IF subs = <<>> THEN c
    ELSE forwardAllUnfiltered(writeLog(c, "[" \o typeNameOf(Head(subs)) \o "] "
                                          \o hostKeyOf(Head(subs)) \o ": " \o rawStr),
                              Tail(subs), rawStr)

\* p.writeLog(rawStr) for the subscribers of the snapshot that log
RECURSIVE forwardAll(_, _, _)
forwardAll(c, subs, rawStr) ==
    IF subs = <<>> THEN c
    ELSE LET p == Head(subs)
             c1 == IF logMessages[p]
                   THEN writeLog(c, "[" \o typeNameOf(p) \o "] " \o hostKeyOf(p) \o ": "
                                    \o rawStr)
                   ELSE c
         IN forwardAll(c1, Tail(subs), rawStr)

WForward(id) ==
    /\ workers[id].pc = "forward"
    /\ \E c \in {forwardAll(Core, workers[id].subsSnap, workers[id].rawStr)} : SetCore(c)
    /\ SetFrame(id, [workers[id] EXCEPT !.pc = "emit", !.rawStr = "", !.subsSnap = <<>>])
    /\ UNCHANGED <<logMessages, lastOp, nWrites, registered, now, logVars, wdVars, appVars,
                   udpListenersByKey, listeners, listenerOf, mainPc, sockets, events,
                   starts, spawned, nRecv>>

\* the emission test; when due, the rates and the two snapshots under the lock
emitStep(id) ==
    /\ IF workers[id].nowTs >= workers[id].nextEmitTs
       THEN LET statsByHost == updateRatesLocked(listeners[id].statsByHost,
                                                 workers[id].nowTs)
            IN /\ listeners' = [listeners EXCEPT ![id].statsByHost = statsByHost]
               /\ SetFrame(id, [workers[id] EXCEPT
                                   !.pc = "callbacks",
                                   !.nextEmitTs = workers[id].nowTs
                                                      + listeners[id].emitEverySec,
                                   !.statsSnap = statsByHost,
                                   !.subsByHostSnap = listeners[id].subsByHost])
       ELSE /\ SetFrame(id, [workers[id] EXCEPT !.pc = "check"])
            /\ UNCHANGED listeners
    /\ UNCHANGED <<coreVars, logVars, wdVars, appVars, udpListenersByKey, listenerOf, mainPc, sockets,
                   events, starts, spawned, nRecv>>

\* the emission test after a datagram
WEmit(id) ==
    /\ workers[id].pc = "emit"
    /\ emitStep(id)

\* a variant in which the exception of recvfrom ends the thread
WRecvRaisesEndsWorker(id) ==
    /\ workers[id].pc = "recv"
    /\ SetFrame(id, [workers[id] EXCEPT !.pc = "crashed"])
    /\ UNCHANGED <<coreVars, logVars, wdVars, appVars, udpListenersByKey, listeners, listenerOf,
                   mainPc, sockets, events, starts, spawned, nRecv>>

\* recvfrom raises (socket.timeout after 0.2 s, or an error on a closed
\* socket); nothing is shared up to the emission test, which follows at once
WRecvRaises(id) ==
    /\ workers[id].pc = "recv"
    /\ emitStep(id)

\* p.emitStatus(nowTs, st) for every subscriber of a list
RECURSIVE emitSubs(_, _, _, _)
emitSubs(c, subs, nowTs, st) ==
    IF subs = <<>> THEN c
    ELSE emitSubs(writeTable(c, hostKeyOf(Head(subs)), emitStatusRow(Head(subs), nowTs, st)),
                  Tail(subs), nowTs, st)

\* a variant of the loop that leaves out one host of the snapshot
emitHostsSkipsOne(c, hostKeys, frame) ==
    LET RECURSIVE go(_, _)
        go(c1, keys) ==
            IF keys = {} THEN c1
            ELSE LET hostKey == CHOOSE h \in keys : TRUE
                     st == Get(frame.statsSnap, hostKey, HostStats)
                 IN go(emitSubs(c1, frame.subsByHostSnap[hostKey], frame.nowTs, st),
                       keys \ {hostKey})
    IN IF hostKeys = {} THEN c
       ELSE go(c, hostKeys \ {CHOOSE h \in hostKeys : TRUE})

\* the loop over subsByHostSnap.items()
RECURSIVE emitHosts(_, _, _)
emitHosts(c, hostKeys, frame) ==
    IF hostKeys = {} THEN c
    ELSE LET hostKey == CHOOSE h \in hostKeys : TRUE
             st == Get(frame.statsSnap, hostKey, HostStats)
         IN emitHosts(emitSubs(c, frame.subsByHostSnap[hostKey], frame.nowTs, st),
                      hostKeys \ {hostKey}, frame)

WCallbacks(id) ==
    /\ workers[id].pc = "callbacks"
    /\ \E c \in {emitHosts(Core, DOMAIN workers[id].subsByHostSnap, workers[id])} :
           SetCore(c)
    /\ SetFrame(id, [workers[id] EXCEPT !.pc = "check", !.statsSnap = EmptyDict,
                                        !.subsByHostSnap = EmptyDict])
    /\ UNCHANGED <<logMessages, lastOp, nWrites, registered, now, logVars, wdVars, appVars,
                   udpListenersByKey, listeners, listenerOf, mainPc, sockets, events,
                   starts, spawned, nRecv>>

\* the clock advances
Tick ==
    /\ now < MaxTime
    /\ now' = now + 1
    /\ UNCHANGED <<hostsByName, hostOrder, selectedIndex, commandLog, statusMsg,
                   lastRowByHostBaseType, logMessages, lastOp, nWrites, registered,
                   logVars, wdVars, appVars, udpVars>>

\* the udp instances of self.plugins
BuiltUdpInstances == {u \in UdpInstances : \E k \in 1..Len(registered) : registered[k] = u}

UdpStartAny == \E u \in BuiltUdpInstances : UdpStart(u)
UdpStopAny == \E u \in BuiltUdpInstances : UdpStop(u)

\* the instances of the traffic specification share one endpoint
RxInstances == {"i3", "i4"}

RxStartAny == \E u \in RxInstances : UdpStart(u)
WOpenAny == \E id \in DOMAIN workers : WOpen(id)
WCheckAny == \E id \in DOMAIN workers : WCheck(id)
WCheckSetAny == \E id \in DOMAIN workers : WCheckSet(id)
WRecvAny ==
    \E id \in DOMAIN workers : \E senderIp \in SenderIps : \E dataStr \in RawStrs :
        WRecv(id, senderIp, dataStr)
WRecvRaisesAny == \E id \in DOMAIN workers : WRecvRaises(id)
WForwardAny == \E id \in DOMAIN workers : WForward(id)
WEmitAny == \E id \in DOMAIN workers : WEmit(id)
WCallbacksAny == \E id \in DOMAIN workers : WCallbacks(id)

\* the operator switches the forwarding of payloads on and off
UdpDispatch == \E rawCmd \in {"++", "--"} : ExecCommand(rawCmd, FALSE)

\* every instance is started once and stopped any number of times, on a
\* quiet network
NextUdp ==
    \/ UdpStartAny \/ UdpStopAny \/ UdpStopSignal \/ UdpStopClose \/ UdpStopClear
    \/ WOpenAny \/ WCheckAny \/ WCheckSetAny \/ WRecvRaisesAny \/ WCallbacksAny

SpecUdp == InitUdp /\ [][NextUdp]_vars

\* the instances of one endpoint are started and receive datagrams
NextUdpRx ==
    \/ RxStartAny
    \/ WOpenAny \/ WCheckAny \/ WCheckSetAny \/ WRecvAny \/ WRecvRaisesAny
    \/ WForwardAny \/ WEmitAny \/ WCallbacksAny
    \/ Tick \/ UdpDispatch

SpecUdpRx == InitUdp /\ [][NextUdpRx]_vars

-----------------------------------------------------------------------------
(* Claims about the endpoint multiplexer *)

\* the endpoints of the configuration
Endpoints == {endpointKey(u) : u \in UdpInstances}

\* the instances that hold a listener, by endpoint
SubscribedAt(key) == {u \in UdpInstances : listenerOf[u] # None /\ endpointKey(u) = key}

\* the listeners of an endpoint that have a thread or a subscriber
LiveListeners(key) ==
    {id \in DOMAIN listeners :
        /\ <<listeners[id].bindIp, listeners[id].port>> = key
        /\ (listeners[id].threadObj # None \/ DOMAIN listeners[id].subsByHost # {})}

\* C8: whatever start() and stop() calls were made, an endpoint has at most
\* one listener and that listener one receive thread: every listener with a
\* thread or a subscriber is the one the table holds for its endpoint, no
\* listener was given a second thread, and between two calls the table
\* holds an endpoint exactly when some instance is subscribed to it; all
\* the instances subscribed to an endpoint share the listener of the table.
C8_OneListenerPerEndpoint ==
    /\ \A key \in Endpoints :
          /\ LiveListeners(key) \subseteq
                 (IF key \in DOMAIN udpListenersByKey THEN {udpListenersByKey[key]} ELSE {})
          /\ mainPc = MainIdle =>
                /\ key \in DOMAIN udpListenersByKey <=> SubscribedAt(key) # {}
                /\ \A u \in SubscribedAt(key) :
                      /\ listenerOf[u] = udpListenersByKey[key]
                      /\ \E k \in 1..Len(Get(listeners[listenerOf[u]].subsByHost,
                                             hostKeyOf(u), <<>>)) :
                             listeners[listenerOf[u]].subsByHost[hostKeyOf(u)][k] = u
    /\ DOMAIN udpListenersByKey \subseteq Endpoints
    /\ \A key \in DOMAIN udpListenersByKey : spawned[udpListenersByKey[key]] = 1
    /\ \A id \in DOMAIN listeners : Get(spawned, id, 0) <= 1

\* the two instances of port 5000 were both started, shared the only
\* listener ever made for that port, and have both stopped: the table has
\* nothing left for the port
C8_Witness ==
    /\ mainPc = MainIdle
    /\ starts["i3"] = 1 /\ starts["i4"] = 1
    /\ listenerOf["i3"] = None /\ listenerOf["i4"] = None
    /\ {id \in DOMAIN listeners : listeners[id].port = 5000} = {"L1"}
    /\ spawned["L1"] = 1
    /\ endpointKey("i3") \notin DOMAIN udpListenersByKey

\* the statistics of every host of every listener
AllStats == [id \in DOMAIN listeners |-> listeners[id].statsByHost]

\* C9: a datagram is attributed by its sender's address alone: when the
\* lower-cased address is an alias of host X in the listener's map, X's
\* packet count grows by one, its byte count by the datagram's length, and
\* no other host's statistics change, whatever the payload says; when the
\* address is no alias, no statistics change at all.  For one sender, two
\* payloads are never attributed differently.
C9_AttributionBySenderOnly ==
    /\ [](\A id \in DOMAIN listeners : \A senderIp \in SenderIps :
            \A r1 \in RawStrs : \A r2 \in RawStrs :
                matchSender(listeners[id].keyMapLower, senderIp, r1)
                    = matchSender(listeners[id].keyMapLower, senderIp, r2))
    /\ [][nRecv' = nRecv + 1 =>
            LET id == lastOp'.listener
                alias == Lower(lastOp'.senderIp)
                keyMapLower == listeners[id].keyMapLower
            IN IF alias \in DOMAIN keyMapLower
               THEN LET X == keyMapLower[alias]
                        before == Get(listeners[id].statsByHost, X, HostStats)
                    IN /\ X \in DOMAIN listeners'[id].statsByHost
                       /\ listeners'[id].statsByHost[X] =
                              [before EXCEPT
                                  !.packetCount = @ + 1,
                                  !.byteCount = @ + Len(lastOp'.dataStr),
                                  !.lastSeenTs = workers[id].nowTs]
                       /\ \A j \in DOMAIN listeners :
                              \A h \in DOMAIN listeners[j].statsByHost :
                                  (j # id \/ h # X) =>
                                      /\ h \in DOMAIN listeners'[j].statsByHost
                                      /\ listeners'[j].statsByHost[h]
                                             = listeners[j].statsByHost[h]
               ELSE AllStats' = AllStats]_vars

\* a datagram from Web's address whose payload names db1 was counted for Web
\* while db1, subscribed to the same listener, stayed at zero
C9_Witness ==
    /\ lastOp.op = "recvfrom"
    /\ lastOp.senderIp = "10.0.0.7"
    /\ lastOp.dataStr = "{\"name\": \"db1\"}"
    /\ lastOp.canonical = "Web"
    /\ listeners[lastOp.listener].statsByHost["Web"].packetCount = 1
    /\ "db1" \in DOMAIN listeners[lastOp.listener].statsByHost
    /\ listeners[lastOp.listener].statsByHost["db1"].packetCount = 0

-----------------------------------------------------------------------------
(* The watchdog (plugins/watchdog.py) *)

\* the watchdog section of host db1 as configured
WdParams ==
    [serviceName |-> "WATCHDOG", watchSource |-> "Ping", watchWhen |-> <<"Bad">>,
     rescueCommand |-> "fix", recheckAfterSec |-> 0, cooldownSec |-> 1]

\* the instance of the watchdog and the probe it watches
WdInstance == "i6"
WdProbe == "i1"

\* WatchdogPlugin.__init__: the fields derived from the parameters
wdServiceName == OrDefault(parseStr(WdParams.serviceName), "WATCHDOG")
wdWatchSource ==
    IF parseStr(WdParams.watchSource) = None THEN "" ELSE Lower(parseStr(WdParams.watchSource))
wdWatchWhen ==
    LET lst == parseStrList(WdParams.watchWhen)
    IN IF lst = <<>> THEN {"bad"} ELSE {Lower(lst[k]) : k \in 1..Len(lst)}
wdRescueCommand == OrDefault(parseStr(WdParams.rescueCommand), "")

\* PluginBase.writeLog
pluginWriteLog(c, pluginObj, text) ==
    writeLog(c, "[" \o typeNameOf(pluginObj) \o "] " \o hostKeyOf(pluginObj) \o ": " \o text)

\* Watchdog.getSeverity
getSeverity(c) ==
    LET sev == getLastSeverity(c, hostKeyOf(WdInstance), wdWatchSource)
    IN IF sev = None \/ sev = "" THEN None ELSE Lower(Strip(sev))

\* Watchdog.canRun
canRun == wdWatchSource # "" /\ wdRescueCommand # ""

\* a variant of shouldTrigger that takes every severity for a watched one
shouldTriggerAlways(sevStr) == TRUE

\* Watchdog.shouldTrigger
shouldTrigger(sevStr) == sevStr \in wdWatchWhen

\* a variant of the test in maybeTrigger that forgets the cooldown
cooldownElapsedAlways(w, nowTs) == TRUE

\* Watchdog.maybeTrigger: the cooldown does not hold the attempt back
cooldownElapsed(w, nowTs) == ~(w.cooldownUntilTs > nowTs)

\* a variant of maybeTrigger that never starts an action
maybeTriggerStartsNever(w, nowTs) == FALSE

\* a variant of maybeTrigger that does not look at the running flag
maybeTriggerStartsWhileRunning(w, nowTs) == cooldownElapsed(w, nowTs)

\* Watchdog.maybeTrigger: the attempt starts an action
maybeTriggerStarts(w, nowTs) == ~w.runningRescue /\ cooldownElapsed(w, nowTs)

\* the severities the watched probe reports
ProbeSeverities == {"info", "bad"}

\* the number of rows the watched probe writes
MaxProbeWrites == 4

\* the watched probe reports a severity
ProbeWrite(sev) ==
    /\ wdObs.probeWrites < MaxProbeWrites
    /\ wdObs' = [wdObs EXCEPT !.probeWrites = @ + 1]
    /\ \E c \in {writeTable(Core, hostKeyOf(WdProbe),
                            TableRow(hostKeyOf(WdProbe), None, typeNameOf(WdProbe),
                                     "PING " \o sev, sev, 0))} : SetCore(c)
    /\ UNCHANGED <<logMessages, lastOp, nWrites, registered, now, logVars, udpVars, appVars,
                   wd, wdPlugin, wdLoop, rescues, wdMain>>

\* WatchdogPlugin.start
WdStart ==
    /\ ~wdPlugin.started
    /\ wdMain = "idle"
    /\ wdPlugin' = [stopEvent |-> "event", isSet |-> FALSE, threadObj |-> "thread",
                    started |-> TRUE]
    /\ wdLoop' = [wdLoop EXCEPT !.pc = "check"]
    /\ \E c \in {IF canRun THEN Core
                 ELSE pluginWriteLog(Core, WdInstance, wdServiceName
                          \o ": disabled (missing watchSource/rescueCommand)")} : SetCore(c)
    /\ UNCHANGED <<logMessages, lastOp, nWrites, registered, now, logVars, udpVars, appVars,
                   wd, rescues, wdMain, wdObs>>

\* WatchdogPlugin.stop: the event is set when there is one
WdStopSet ==
    /\ wdPlugin.started
    /\ wdMain = "idle"
    /\ wdPlugin' = IF wdPlugin.stopEvent # None THEN [wdPlugin EXCEPT !.isSet = TRUE]
                   ELSE wdPlugin
    /\ wdMain' = "clear"
    /\ UNCHANGED <<coreVars, logVars, udpVars, appVars, wd, wdLoop, rescues, wdObs>>

\* WatchdogPlugin.stop: self.stopEvent = None; self.threadObj = None
WdStopClear ==
    /\ wdMain = "clear"
    /\ wdPlugin' = [wdPlugin EXCEPT !.stopEvent = None, !.threadObj = None]
    /\ wdMain' = "idle"
    /\ UNCHANGED <<coreVars, logVars, udpVars, appVars, wd, wdLoop, rescues, wdObs>>

\* the loop condition, first half: self.stopEvent is not None
WdCheck ==
    /\ wdLoop.pc = "check"
    /\ wdLoop' = [wdLoop EXCEPT !.pc = IF wdPlugin.stopEvent = None THEN "exited"
                                       ELSE "check2"]
    /\ UNCHANGED <<coreVars, logVars, udpVars, appVars, wd, wdPlugin, rescues, wdMain, wdObs>>

\* a variant of the loop condition that does not ask the event
WdCheckSetIgnoresEvent ==
    /\ wdLoop.pc = "check2"
    /\ wdLoop' = IF ~canRun THEN [wdLoop EXCEPT !.pc = "check"]
                 ELSE [wdLoop EXCEPT !.pc = "sev", !.nowTs = now]
    /\ UNCHANGED <<coreVars, logVars, udpVars, appVars, wd, wdPlugin, rescues, wdMain, wdObs>>

\* the loop condition, second half: self.stopEvent is read again for
\* is_set(), which raises when stop() has cleared it in between (loopSafe
\* logs it); then canRun and nowTs = time.time()
WdCheckSet ==
    /\ wdLoop.pc = "check2"
    /\ IF wdPlugin.stopEvent = None
       THEN /\ wdLoop' = [wdLoop EXCEPT !.pc = "crashed"]
            /\ \E c \in {pluginWriteLog(Core, WdInstance, wdServiceName \o
                            ": LOOP EXC AttributeError: 'NoneType' object has no attribute 'is_set'")} :
                   SetCore(c)
       ELSE /\ wdLoop' = IF wdPlugin.isSet THEN [wdLoop EXCEPT !.pc = "exited"]
                         ELSE IF ~canRun THEN [wdLoop EXCEPT !.pc = "check"]
                         ELSE [wdLoop EXCEPT !.pc = "sev", !.nowTs = now]
            /\ UNCHANGED <<hostsByName, hostOrder, selectedIndex, commandLog, statusMsg,
                           lastRowByHostBaseType>>
    /\ UNCHANGED <<logMessages, lastOp, nWrites, registered, now, logVars, udpVars, appVars,
                   wd, wdPlugin, rescues, wdMain, wdObs>>

\* sevStr = self.wd.getSeverity()
WdSev ==
    /\ wdLoop.pc = "sev"
    /\ wdLoop' = [wdLoop EXCEPT !.pc = "decide", !.sevStr = getSeverity(Core)]
    /\ UNCHANGED <<coreVars, logVars, udpVars, appVars, wd, wdPlugin, rescues, wdMain, wdObs>>

\* a variant of the iteration that calls maybeTrigger on every poll that
\* sees a watched severity, changed or not
WdDecideRetries ==
    /\ wdLoop.pc = "decide"
    /\ LET sevStr == wdLoop.sevStr
           nowTs == wdLoop.nowTs
           first == wd.lastSeenSeverity = None
           changed == ~first /\ sevStr # wd.lastSeenSeverity
           attempt == IF first THEN wd.runOnFirst /\ shouldTrigger(sevStr)
                      ELSE shouldTrigger(sevStr)
           begins == attempt /\ maybeTriggerStarts(wd, nowTs)
       IN /\ \E c \in {IF changed
                       THEN pluginWriteLog(Core, WdInstance,
                                wdServiceName \o ": [" \o wdWatchSource \o "] "
                                \o OrDefault(wd.lastSeenSeverity, "none") \o " -> "
                                \o OrDefault(sevStr, "none"))
                       ELSE Core} : SetCore(c)
          /\ wd' = [wd EXCEPT !.lastSeenSeverity = IF first \/ changed THEN sevStr ELSE @,
                              !.runningRescue = IF begins THEN TRUE ELSE @]
          /\ rescues' = IF begins
                        THEN Append(rescues, [pc |-> "trigger",
                                              reason |-> IF first THEN "first"
                                                         ELSE "transition"])
                        ELSE rescues
          /\ wdObs' = [wdObs EXCEPT
                          !.attempts = IF attempt THEN @ + 1 ELSE @,
                          !.last = [prev |-> wd.lastSeenSeverity, cur |-> sevStr,
                                    attempted |-> attempt, started |-> begins]]
    /\ wdLoop' = [pc |-> "check", nowTs |-> 0, sevStr |-> None]
    /\ UNCHANGED <<logMessages, lastOp, nWrites, registered, now, logVars, udpVars, appVars,
                   wdPlugin, wdMain>>

\* the rest of the iteration: the baseline on a first observation, the
\* transition line and the new lastSeenSeverity on a change, and
\* maybeTrigger where the code calls it
WdDecide ==
    /\ wdLoop.pc = "decide"
    /\ LET sevStr == wdLoop.sevStr
           nowTs == wdLoop.nowTs
           first == wd.lastSeenSeverity = None
           changed == ~first /\ sevStr # wd.lastSeenSeverity
           attempt == IF first THEN wd.runOnFirst /\ shouldTrigger(sevStr)
                      ELSE changed /\ shouldTrigger(sevStr)
           begins == attempt /\ maybeTriggerStarts(wd, nowTs)
       IN /\ \E c \in {IF changed
                       THEN pluginWriteLog(Core, WdInstance,
                                wdServiceName \o ": [" \o wdWatchSource \o "] "
                                \o OrDefault(wd.lastSeenSeverity, "none") \o " -> "
                                \o OrDefault(sevStr, "none"))
                       ELSE Core} : SetCore(c)
          /\ wd' = [wd EXCEPT !.lastSeenSeverity = IF first \/ changed THEN sevStr ELSE @,
                              !.runningRescue = IF begins THEN TRUE ELSE @]
          /\ rescues' = IF begins
                        THEN Append(rescues, [pc |-> "trigger",
                                              reason |-> IF first THEN "first"
                                                         ELSE "transition"])
                        ELSE rescues
          /\ wdObs' = [wdObs EXCEPT
                          !.attempts = IF attempt THEN @ + 1 ELSE @,
                          !.last = [prev |-> wd.lastSeenSeverity, cur |-> sevStr,
                                    attempted |-> attempt, started |-> begins]]
    /\ wdLoop' = [pc |-> "check", nowTs |-> 0, sevStr |-> None]
    /\ UNCHANGED <<logMessages, lastOp, nWrites, registered, now, logVars, udpVars, appVars,
                   wdPlugin, wdMain>>

SetRescue(k, pc) == rescues' = [rescues EXCEPT ![k].pc = pc]

\* _runRescueThread: the trigger line
RTrigger(k) ==
    /\ rescues[k].pc = "trigger"
    /\ \E c \in {pluginWriteLog(Core, WdInstance,
                    wdServiceName \o ": trigger (" \o rescues[k].reason \o ") -> "
                    \o wdRescueCommand)} : SetCore(c)
    /\ SetRescue(k, "run")
    /\ UNCHANGED <<logMessages, lastOp, nWrites, registered, now, logVars, udpVars, appVars,
                   wd, wdPlugin, wdLoop, wdMain, wdObs>>

\* subprocess.run returns with a return code (no output), the code is logged
\* and, recheckAfterSec being 0, the thread does not sleep
RRun(k, rc) ==
    /\ rescues[k].pc = "run"
    /\ \E c \in {pluginWriteLog(Core, WdInstance,
                    wdServiceName \o ": rescue rc=" \o str(rc))} : SetCore(c)
    /\ SetRescue(k, "recheck")
    /\ UNCHANGED <<logMessages, lastOp, nWrites, registered, now, logVars, udpVars, appVars,
                   wd, wdPlugin, wdLoop, wdMain, wdObs>>

\* a variant in which the exception ends the thread at once
RRunRaisesEndsThread(k) ==
    /\ rescues[k].pc = "run"
    /\ SetRescue(k, "done")
    /\ UNCHANGED <<coreVars, logVars, udpVars, appVars, wd, wdPlugin, wdLoop, wdMain, wdObs>>

\* subprocess.run raises: the thread goes on with the finally block
RRunRaises(k) ==
    /\ rescues[k].pc = "run"
    /\ SetRescue(k, "cooldown")
    /\ UNCHANGED <<coreVars, logVars, udpVars, appVars, wd, wdPlugin, wdLoop, wdMain, wdObs>>

\* sevAfter = self.getSeverity() and the recheck line
RRecheck(k) ==
    /\ rescues[k].pc = "recheck"
    /\ \E c \in {pluginWriteLog(Core, WdInstance,
                    wdServiceName \o ": recheck [" \o wdWatchSource \o "] -> "
                    \o OrDefault(getSeverity(Core), "none"))} : SetCore(c)
    /\ SetRescue(k, "cooldown")
    /\ UNCHANGED <<logMessages, lastOp, nWrites, registered, now, logVars, udpVars, appVars,
                   wd, wdPlugin, wdLoop, wdMain, wdObs>>

\* finally: self.cooldownUntilTs = time.time() + self.cooldownSec
RCooldown(k) ==
    /\ rescues[k].pc = "cooldown"
    /\ wd' = [wd EXCEPT !.cooldownUntilTs = now + WdParams.cooldownSec]
    /\ SetRescue(k, "clear")
    /\ UNCHANGED <<coreVars, logVars, udpVars, appVars, wdPlugin, wdLoop, wdMain, wdObs>>

\* finally: self.runningRescue = False
RClear(k) ==
    /\ rescues[k].pc = "clear"
    /\ wd' = [wd EXCEPT !.runningRescue = FALSE]
    /\ SetRescue(k, "log")
    /\ UNCHANGED <<coreVars, logVars, udpVars, appVars, wdPlugin, wdLoop, wdMain, wdObs>>

\* finally: the cooldown line
RLog(k) ==
    /\ rescues[k].pc = "log"
    /\ \E c \in {pluginWriteLog(Core, WdInstance,
                    wdServiceName \o ": cooldown " \o str(WdParams.cooldownSec) \o "s")} :
           SetCore(c)
    /\ SetRescue(k, "done")
    /\ UNCHANGED <<logMessages, lastOp, nWrites, registered, now, logVars, udpVars, appVars,
                   wd, wdPlugin, wdLoop, wdMain, wdObs>>

\* the return codes of the rescue command
ReturnCodes == {0}

ProbeWriteAny == \E sev \in ProbeSeverities : ProbeWrite(sev)
RTriggerAny == \E k \in 1..Len(rescues) : RTrigger(k)
RRunAny == \E k \in 1..Len(rescues) : \E rc \in ReturnCodes : RRun(k, rc)
RRunRaisesAny == \E k \in 1..Len(rescues) : RRunRaises(k)
RRecheckAny == \E k \in 1..Len(rescues) : RRecheck(k)
RCooldownAny == \E k \in 1..Len(rescues) : RCooldown(k)
RClearAny == \E k \in 1..Len(rescues) : RClear(k)
RLogAny == \E k \in 1..Len(rescues) : RLog(k)

\* the elements of host db1: the probe and its watchdog
WdElements == <<"i1", "i6">>

InitWd ==
    /\ InitBuiltFrom(WdElements)
    /\ InitThreads /\ InitLog /\ InitMux /\ InitApp
    /\ InitWatchdog

NextWd ==
    \/ ProbeWriteAny \/ Tick
    \/ WdStart
    \/ WdCheck \/ WdCheckSet \/ WdSev \/ WdDecide
    \/ RTriggerAny \/ RRunAny \/ RRunRaisesAny \/ RRecheckAny
    \/ RCooldownAny \/ RClearAny \/ RLogAny

SpecWd == InitWd /\ [][NextWd]_vars

-----------------------------------------------------------------------------
(* Claims about the watchdog *)

\* the step is the poll's decision on the severity it has read
DecideStep == wdLoop.pc = "decide" /\ wdLoop'.pc # "decide"

\* an action is running or the cooldown it opened has not elapsed
Suppressing == wd.runningRescue \/ now < wd.cooldownUntilTs

\* C10: with the watched set {bad}, a poll that sees the severity go from
\* another recorded value (info, say) to bad calls maybeTrigger exactly
\* once and records bad, so that a following poll seeing bad again calls
\* nothing; the call starts an action when none is running and the cooldown
\* is over at the poll's time stamp; while an action runs or its cooldown
\* window is open, a change to bad starts nothing.  Only such a decision
\* calls maybeTrigger or starts an action.
C10_TransitionTriggersOnce ==
    [][/\ DecideStep =>
            LET prev == wd.lastSeenSeverity
                cur == wdLoop.sevStr
            IN /\ (prev # None /\ prev # cur /\ cur = "bad") =>
                     /\ wdObs'.attempts = wdObs.attempts + 1
                     /\ wd'.lastSeenSeverity = "bad"
                     /\ Len(rescues') = Len(rescues) +
                            (IF ~wd.runningRescue /\ wd.cooldownUntilTs <= wdLoop.nowTs
                             THEN 1 ELSE 0)
                     /\ Suppressing => rescues' = rescues
               /\ (prev # None /\ prev = cur) =>
                     /\ wdObs'.attempts = wdObs.attempts
                     /\ rescues' = rescues
                     /\ wd' = wd
       /\ ~DecideStep =>
            /\ wdObs'.attempts = wdObs.attempts
            /\ Len(rescues') = Len(rescues)]_vars

\* info -> bad started an action; after it ended the severity went back to
\* info and to bad again inside the cooldown window: a second call of
\* maybeTrigger that started nothing
C10_Witness ==
    /\ wdObs.attempts = 2
    /\ Len(rescues) = 1
    /\ rescues[1].reason = "transition"
    /\ rescues[1].pc = "done"
    /\ wdObs.last = [prev |-> "info", cur |-> "bad", attempted |-> TRUE, started |-> FALSE]
    /\ ~wd.runningRescue
    /\ now < wd.cooldownUntilTs

-----------------------------------------------------------------------------
(* The watchdog's first observation *)

\* the number of rows the probe writes while the first observation is studied
MaxFirstWrites == 2

FirstProbeWrite ==
    /\ wdObs.probeWrites < MaxFirstWrites
    /\ ProbeWriteAny

\* the watchdog is configured with runOnFirst true or false
InitWdFirst ==
    /\ InitBuiltFrom(WdElements)
    /\ InitThreads /\ InitLog /\ InitMux /\ InitApp
    /\ \E runOnFirst \in BOOLEAN : InitWatchdogWith(runOnFirst)

NextWdFirst ==
    \/ FirstProbeWrite \/ Tick
    \/ WdStart
    \/ WdCheck \/ WdCheckSet \/ WdSev \/ WdDecide
    \/ RTriggerAny \/ RRunAny \/ RRunRaisesAny \/ RRecheckAny
    \/ RCooldownAny \/ RClearAny \/ RLogAny

SpecWdFirst == InitWdFirst /\ [][NextWdFirst]_vars

\* C11: a poll that finds no baseline (lastSeenSeverity is None) records the
\* severity it has read as the baseline and writes no line to the log; when
\* runOnFirst is true and that severity is bad (the watched set is {bad}) the
\* poll calls maybeTrigger, which starts an action with reason "first";
\* otherwise, and always when runOnFirst is false, it calls nothing and
\* starts nothing.
C11_FirstObservation ==
    [][(DecideStep /\ wd.lastSeenSeverity = None) =>
          /\ wd'.lastSeenSeverity = wdLoop.sevStr
          /\ commandLog' = commandLog
          /\ IF wd.runOnFirst /\ wdLoop.sevStr = "bad"
             THEN /\ wdObs'.attempts = wdObs.attempts + 1
                  /\ rescues' = Append(rescues, [pc |-> "trigger", reason |-> "first"])
                  /\ wd'.runningRescue
             ELSE /\ wdObs'.attempts = wdObs.attempts
                  /\ rescues' = rescues
                  /\ wd'.runningRescue = wd.runningRescue]_vars

\* runOnFirst is true and the first severity seen was bad: the action started
\* on that poll, with no transition line before its trigger line
C11_Witness ==
    /\ wd.runOnFirst
    /\ wdObs.last = [prev |-> None, cur |-> "bad", attempted |-> TRUE, started |-> TRUE]
    /\ wd.lastSeenSeverity = "bad"
    /\ Len(rescues) = 1 /\ rescues[1].reason = "first" /\ rescues[1].pc = "run"
    /\ Len(commandLog) = 1

-----------------------------------------------------------------------------
(* End to end: a probe that reports ok, ok, bad and its watchdog *)

\* the severities the probe of host db1 reports, in this order
Reports == <<"ok", "ok", "bad">>

E2EProbeWrite ==
    /\ wdObs.probeWrites < Len(Reports)
    /\ ProbeWrite(Reports[wdObs.probeWrites + 1])

\* the steps of the poll loop and of the rescue threads
WdLoopStep == WdCheck \/ WdCheckSet \/ WdSev \/ WdDecide
RescueStep ==
    \/ RTriggerAny \/ RRunAny \/ RRunRaisesAny \/ RRecheckAny
    \/ RCooldownAny \/ RClearAny \/ RLogAny

NextWdE2E ==
    \/ E2EProbeWrite \/ Tick
    \/ WdStart
    \/ WdLoopStep
    \/ RescueStep

\* the probe, the application's start pass, the poll loop and the rescue
\* threads are threads of a running process: each takes its next step in the end
SpecWdE2E ==
    /\ InitWd
    /\ [][NextWdE2E]_vars
    /\ WF_vars(E2EProbeWrite)
    /\ WF_vars(WdStart)
    /\ WF_vars(WdLoopStep)
    /\ WF_vars(RescueStep)

\* the lines of the operator log with one of the given texts
CountLines(texts) ==
    Cardinality({k \in 1..Len(commandLog) : commandLog[k][2] \in texts})

SeverityNames == {"none", "ok", "info", "warn", "bad"}
TransitionLines ==
    {"[watchdog] db1: WATCHDOG: [ping] " \o p \o " -> " \o c :
        p \in SeverityNames, c \in SeverityNames}
OkBadLine == "[watchdog] db1: WATCHDOG: [ping] ok -> bad"
TriggerLines ==
    {"[watchdog] db1: WATCHDOG: trigger (" \o r \o ") -> fix" : r \in {"first", "transition"}}

\* every report is written, the watchdog has seen the last one and no rescue
\* thread is still at work
E2EDone ==
    /\ wdObs.probeWrites = Len(Reports)
    /\ wd.lastSeenSeverity = "bad"
    /\ \A k \in 1..Len(rescues) : rescues[k].pc = "done"

\* C12: the probe reports ok, ok, bad and the watchdog (watched set {bad},
\* runOnFirst false) polls it.  The log never holds more than one transition
\* line, which reads "ok -> bad", nor more than one trigger line.  Once the
\* watchdog has recorded ok, the log comes to hold, and keeps, exactly one
\* "ok -> bad" line and exactly one trigger line.  A watchdog whose first
\* observation is already bad records it as the baseline and the log holds
\* neither line, then and later.
C12_EndToEndLog ==
    /\ [](/\ CountLines(TransitionLines) <= 1
          /\ CountLines(TransitionLines) = CountLines({OkBadLine})
          /\ CountLines(TriggerLines) <= CountLines({OkBadLine}))
    /\ [](wd.lastSeenSeverity = "ok" =>
             <>[](CountLines({OkBadLine}) = 1 /\ CountLines(TriggerLines) = 1))
    /\ []((wd.lastSeenSeverity = "bad" /\ CountLines(TransitionLines) = 0) =>
             [](CountLines(TransitionLines) = 0 /\ CountLines(TriggerLines) = 0))

\* the run is over and the log holds the transition line, then the trigger
\* line and what the rescue thread wrote after it
C12_Witness ==
    /\ E2EDone
    /\ wdObs.attempts = 1
    /\ CountLines({OkBadLine}) = 1
    /\ CountLines(TriggerLines) = 1
    /\ commandLog[1][2] = OkBadLine
    /\ commandLog[2][2] \in TriggerLines

\* C12 as stated: whenever the run is over, the log holds exactly one
\* "ok -> bad" line and exactly one trigger line
C12_AlwaysOneOfEach ==
    E2EDone => CountLines({OkBadLine}) = 1 /\ CountLines(TriggerLines) = 1

-----------------------------------------------------------------------------
(* The application's passes over its instances (lib/app.py) *)

\* the elements of the configuration the application is built from
AppElements == <<"i1", "i2", "i6">>

InitAppBuilt ==
    /\ InitBuiltFrom(AppElements)
    /\ InitThreads /\ InitLog /\ InitMux /\ InitWatchdog /\ InitApp

\* the passes of the foreground loop
MaxPasses == 1

\* what the operator enters while the loop runs
AppCmds == {"t", "x"}

\* self.plugins, in the order buildPluginsFromConfig appended them
plugins == registered

\* MonitorApp.start: p.start() for the next instance; the call site has no
\* handler, so an exception leaves start() and run(), whose call of start()
\* stands before its try block
AppStartCall(raises) ==
    /\ app.phase = "start"
    /\ app.idx <= Len(plugins)
    /\ app' = [app EXCEPT
                  !.startCalls = Append(@, plugins[app.idx]),
                  !.raised = IF raises THEN Append(@, <<"start", plugins[app.idx]>>) ELSE @,
                  !.phase = IF raises THEN "crashed" ELSE @,
                  !.idx = IF raises THEN @ ELSE @ + 1]
    /\ UNCHANGED <<coreVars, logVars, udpVars, wdVars>>

\* MonitorApp.start returns and run() enters ui.runLoop
AppStartDone ==
    /\ app.phase = "start"
    /\ app.idx > Len(plugins)
    /\ app' = [app EXCEPT !.phase = "loop", !.idx = 1]
    /\ UNCHANGED <<coreVars, logVars, udpVars, wdVars>>

\* MonitorApp.tick, called once per pass of the loop: no plugin of the
\* package defines tick, so hasattr(p, "tick") is false for every instance
AppTick ==
    /\ app.phase = "loop"
    /\ app.passes < MaxPasses
    /\ app' = [app EXCEPT !.passes = @ + 1]
    /\ UNCHANGED <<coreVars, logVars, udpVars, wdVars>>

\* handleKeys hands a command to MonitorCore.execCommand
AppCommand ==
    /\ app.phase = "loop"
    /\ \E rawCmd \in AppCmds : \E raises \in BOOLEAN : ExecCommand(rawCmd, raises)

\* the loop is left (KeyboardInterrupt) and the finally block calls stop()
AppInterrupt ==
    /\ app.phase = "loop"
    /\ app' = [app EXCEPT !.phase = "stop", !.idx = 1]
    /\ UNCHANGED <<coreVars, logVars, udpVars, wdVars>>

\* MonitorApp.stop: p.stop() for the next instance inside try / except: pass
AppStopCall(raises) ==
    /\ app.phase = "stop"
    /\ app.idx <= Len(plugins)
    /\ app' = [app EXCEPT
                  !.stopCalls = Append(@, plugins[app.idx]),
                  !.raised = IF raises THEN Append(@, <<"stop", plugins[app.idx]>>) ELSE @,
                  !.idx = @ + 1]
    /\ UNCHANGED <<coreVars, logVars, udpVars, wdVars>>

\* MonitorApp.stop returns and run() ends
AppStopDone ==
    /\ app.phase = "stop"
    /\ app.idx > Len(plugins)
    /\ app' = [app EXCEPT !.phase = "exited"]
    /\ UNCHANGED <<coreVars, logVars, udpVars, wdVars>>

AppStartAny == \E raises \in BOOLEAN : AppStartCall(raises)
AppStopAny == \E raises \in BOOLEAN : AppStopCall(raises)

NextApp ==
    \/ AppStartAny \/ AppStartDone
    \/ AppTick \/ AppCommand \/ AppInterrupt
    \/ AppStopAny \/ AppStopDone

SpecApp == InitAppBuilt /\ [][NextApp]_vars

\* C13: an exception raised by an instance's start, stop, tick or
\* execCommand never leaves the call site: the application does not end on
\* it, every instance has received start() once the loop runs, and every
\* instance has received stop() once the shutdown is over.
C13_ExceptionsContained ==
    /\ app.phase # "crashed"
    /\ app.phase \in {"loop", "stop", "exited"} => app.startCalls = plugins
    /\ app.phase = "exited" => app.stopCalls = plugins

\* C14: every exception raised inside an instance's start, stop, tick or
\* execCommand adds a line to the operator log.
C14_ExceptionsLogged ==
    [][(\/ Len(app'.raised) > Len(app.raised)
        \/ (lastOp' # lastOp /\ lastOp'.op = "execCommand" /\ lastOp'.raised))
       => Len(commandLog') = Len(commandLog) + 1]_vars

-----------------------------------------------------------------------------
(* Claims about stop() and unsubscription *)

\* the instances in the subscriber lists of a listener
SubscribersOf(id) ==
    UNION {{listeners[id].subsByHost[h][k] : k \in 1..Len(listeners[id].subsByHost[h])} :
              h \in DOMAIN listeners[id].subsByHost}

\* C15: an instance whose stop() has returned (its self.listener is None) is
\* in no listener's subscriber list, and a stop() call on such an instance
\* changes neither a listener, nor the process-wide table, nor a socket,
\* an event or a thread.
C15_StopIdempotent ==
    /\ [](\A u \in UdpInstances :
            listenerOf[u] = None => \A id \in DOMAIN listeners : u \notin SubscribersOf(id))
    /\ [][\A u \in UdpInstances :
            (listenerOf[u] = None /\ UdpStop(u)) => UNCHANGED udpVars]_vars

\* i3 and i4 were started on one listener and i3 has stopped: i4 is the
\* listener's only subscriber, the table still holds the listener, and
\* stop() may be called on i3 again
C15_Witness ==
    /\ mainPc = MainIdle
    /\ starts["i3"] = 1 /\ listenerOf["i3"] = None
    /\ listenerOf["i4"] = "L1"
    /\ SubscribersOf("L1") = {"i4"}
    /\ udpListenersByKey[endpointKey("i3")] = "L1"
    /\ ENABLED UdpStop("i3")

\* the listeners the process-wide table holds
TableListeners == {udpListenersByKey[key] : key \in DOMAIN udpListenersByKey}

\* C16: once the stop() of a listener's last subscriber has returned, the
\* listener is out of the process-wide table, its event is set and it has
\* no open socket, wherever its worker was when the subscriber left.
C16_IdleListenerStopped ==
    mainPc = MainIdle =>
        \A id \in DOMAIN listeners :
            (Get(spawned, id, 0) > 0 /\ DOMAIN listeners[id].subsByHost = {}) =>
                /\ id \notin TableListeners
                /\ events[id]
                /\ sockets[id] # "open"

-----------------------------------------------------------------------------
(* One listener and its subscriptions *)

\* the instances of endpoint 0.0.0.0:5000; i4 and i7 are both of host db1
SubInstances == {"i3", "i4", "i7"}

\* the datagrams counted for the subscribers
MaxSubPackets == 2

\* the listener start() has made for the endpoint
InitListener ==
    /\ InitCore /\ InitThreads /\ InitLog /\ InitWatchdog /\ InitApp
    /\ udpListenersByKey = [key \in {<<"0.0.0.0", 5000>>} |-> "L1"]
    /\ listeners = [id \in {"L1"} |-> UdpListener("0.0.0.0", 5000, 1)]
    /\ listenerOf = [i \in UdpInstances |-> None]
    /\ mainPc = MainIdle
    /\ workers = EmptyDict
    /\ sockets = EmptyDict
    /\ events = EmptyDict
    /\ starts = [i \in UdpInstances |-> 0]
    /\ spawned = EmptyDict
    /\ nRecv = 0

\* UdpPlugin.start: listener.addSub(self, aliases=...)
SubAdd(u) ==
    /\ listenerOf[u] = None
    /\ listenerOf' = [listenerOf EXCEPT ![u] = "L1"]
    /\ listeners' = Put(listeners, "L1", addSub(listeners["L1"], u, udpAliases(u)))
    /\ lastOp' = [op |-> "addSub", pluginObj |-> u]
    /\ UNCHANGED <<hostsByName, hostOrder, selectedIndex, commandLog, statusMsg,
                   lastRowByHostBaseType, logMessages, nWrites, registered, now,
                   logVars, wdVars, appVars, udpListenersByKey, mainPc, workers, sockets,
                   events, starts, spawned, nRecv>>

\* UdpListener.loop: a datagram is counted for the host of its sender
SubPacket(senderIp) ==
    /\ nRecv < MaxSubPackets
    /\ nRecv' = nRecv + 1
    /\ listeners' = Put(listeners, "L1",
                        countPacket(listeners["L1"],
                                    matchSender(listeners["L1"].keyMapLower, senderIp, ""),
                                    now, 1))
    /\ lastOp' = [op |-> "recvfrom", senderIp |-> senderIp]
    /\ UNCHANGED <<hostsByName, hostOrder, selectedIndex, commandLog, statusMsg,
                   lastRowByHostBaseType, logMessages, nWrites, registered, now,
                   logVars, wdVars, appVars, udpListenersByKey, listenerOf, mainPc, workers,
                   sockets, events, starts, spawned>>

\* UdpPlugin.stop: listener.removeSub(self)
SubRemove(u) ==
    /\ listenerOf[u] = "L1"
    /\ listenerOf' = [listenerOf EXCEPT ![u] = None]
    /\ listeners' = Put(listeners, "L1", removeSub(listeners["L1"], u))
    /\ lastOp' = [op |-> "removeSub", pluginObj |-> u]
    /\ UNCHANGED <<hostsByName, hostOrder, selectedIndex, commandLog, statusMsg,
                   lastRowByHostBaseType, logMessages, nWrites, registered, now,
                   logVars, wdVars, appVars, udpListenersByKey, mainPc, workers, sockets,
                   events, starts, spawned, nRecv>>

SubAddAny == \E u \in SubInstances : SubAdd(u)
SubPacketAny == \E senderIp \in {"10.0.0.7", "10.0.0.8", "10.0.0.9"} : SubPacket(senderIp)
SubRemoveAny == \E u \in SubInstances : SubRemove(u)

NextListener == SubAddAny \/ SubPacketAny \/ SubRemoveAny

SpecListener == InitListener /\ [][NextListener]_vars

\* the members of a list
Members(lst) == {lst[k] : k \in 1..Len(lst)}

\* the part of a dict outside one key, and outside the keys of one value
Outside(m, key) == [k \in (DOMAIN m) \ {key} |-> m[k]]
NotMapping(m, value) == [k \in {j \in DOMAIN m : m[j] # value} |-> m[k]]

\* C17: removeSub takes the instance out of its host's subscriber list and
\* keeps the other subscribers of the host in their order.  If some remain,
\* stats and aliases are what they were.  If none remains, the host has no
\* subscriber list and no stats entry any more and no alias maps to it.
\* The subscriber lists and stats of the other hosts and the aliases that
\* map to other hosts are unchanged in both cases.
C17_UnsubscribeFrame ==
    [][(lastOp'.op = "removeSub" /\ listeners' # listeners) =>
          LET u == lastOp'.pluginObj
              h == hostKeyOf(u)
              l == listeners["L1"]
              m == listeners'["L1"]
              rest == SelectSeq(l.subsByHost[h], LAMBDA p : p # u)
          IN /\ u \notin Members(Get(m.subsByHost, h, <<>>))
             /\ Outside(m.subsByHost, h) = Outside(l.subsByHost, h)
             /\ Outside(m.statsByHost, h) = Outside(l.statsByHost, h)
             /\ NotMapping(m.keyMapLower, h) = NotMapping(l.keyMapLower, h)
             /\ IF rest # <<>>
                THEN /\ m.subsByHost[h] = rest
                     /\ m.statsByHost = l.statsByHost
                     /\ m.keyMapLower = l.keyMapLower
                ELSE /\ h \notin DOMAIN m.subsByHost
                     /\ h \notin DOMAIN m.statsByHost
                     /\ \A k \in DOMAIN m.keyMapLower : m.keyMapLower[k] # h]_vars

\* i4 and i7 of host db1 and i3 of host Web were subscribed, a datagram was
\* counted for db1, and i4 has left: i7 remains and db1 keeps its stats and
\* its aliases, those i4 brought included
C17_Witness ==
    /\ lastOp.op = "removeSub" /\ lastOp.pluginObj = "i4"
    /\ Get(listeners["L1"].subsByHost, "db1", <<>>) = <<"i7">>
    /\ Get(listeners["L1"].subsByHost, "Web", <<>>) = <<"i3">>
    /\ listeners["L1"].statsByHost["db1"].packetCount = 1
    /\ Get(listeners["L1"].keyMapLower, "10.0.0.9", None) = "db1"
    /\ Get(listeners["L1"].keyMapLower, "10.0.0.8", None) = "db1"

-----------------------------------------------------------------------------
(* Claims about the packet rate *)

\* bounds of the rate measurement: the datagrams that arrive and the clock's
\* last reading
MaxRatePackets == 3
MaxRateTime == 3

\* the instance whose rate is measured, and the address its host sends from
RateInstance == "i3"
RateSender == "10.0.0.7"

RateStart == UdpStart(RateInstance)

\* a datagram of the measured host arrives
RateRecv ==
    /\ nRecv < MaxRatePackets
    /\ \E id \in DOMAIN workers : recvfrom(id, RateSender, "hi")

\* the clock advances
RateTick ==
    /\ now < MaxRateTime
    /\ now' = now + 1
    /\ UNCHANGED <<hostsByName, hostOrder, selectedIndex, commandLog, statusMsg,
                   lastRowByHostBaseType, logMessages, lastOp, nWrites, registered,
                   logVars, wdVars, appVars, udpVars>>

\* one instance is started and its listener's thread receives and emits
NextRate ==
    \/ RateStart
    \/ WOpenAny \/ WCheckAny \/ WCheckSetAny \/ RateRecv \/ WRecvRaisesAny
    \/ WEmitAny \/ WCallbacksAny
    \/ RateTick

SpecRate == InitUdp /\ [][NextRate]_vars

\* the step of listener id is an emission: updateRatesLocked ran
EmissionOf(id) ==
    /\ id \in DOMAIN workers
    /\ workers[id].pc \in {"recv", "emit"}
    /\ workers'[id].pc = "callbacks"

\* C18: the first emission after a host's statistics were created only sets
\* the baseline (the time and the packet count) and gives the rate 0; every
\* later emission gives the packets counted since the baseline divided by
\* the time since the baseline, which is positive, and moves the baseline;
\* between emissions the baseline and the rate stay and the count only
\* grows, so K packets in an interval T give K/T; no rate is negative
C18_RateComputation ==
    /\ [][\A id \in DOMAIN listeners : \A h \in DOMAIN listeners[id].statsByHost :
            LET st == listeners[id].statsByHost[h]
                st2 == listeners'[id].statsByHost[h]
                nowTs == workers[id].nowTs
            IN IF EmissionOf(id)
               THEN /\ st2.lastRateTs = nowTs
                    /\ st2.lastRatePacketCount = st.packetCount
                    /\ st2.packetCount = st.packetCount
                    /\ IF st.lastRateTs <= 0
                       THEN st2.pps = <<0, 1>>
                       ELSE /\ nowTs - st.lastRateTs > 0
                            /\ st2.pps = <<st.packetCount - st.lastRatePacketCount,
                                           nowTs - st.lastRateTs>>
               ELSE /\ st2.lastRateTs = st.lastRateTs
                    /\ st2.lastRatePacketCount = st.lastRatePacketCount
                    /\ st2.pps = st.pps
                    /\ st2.packetCount \in {st.packetCount, st.packetCount + 1}]_vars
    /\ [](\A id \in DOMAIN listeners : \A h \in DOMAIN listeners[id].statsByHost :
            /\ listeners[id].statsByHost[h].pps[1] >= 0
            /\ listeners[id].statsByHost[h].pps[2] > 0)

\* two datagrams were counted in two seconds since the baseline and the
\* emission gave the rate 2/2
C18_Witness ==
    \E id \in DOMAIN listeners : \E h \in DOMAIN listeners[id].statsByHost :
        /\ listeners[id].statsByHost[h].pps = <<2, 2>>
        /\ listeners[id].statsByHost[h].packetCount = 3
        /\ listeners[id].statsByHost[h].lastRateTs = 3

-----------------------------------------------------------------------------
(* Claims about the staleness of a host *)

\* bound of the classification: the largest timestamp and threshold
MaxStale == 3

\* the instance that classifies
StaleInstance == "i3"

\* emitStatus(nowTs, st) of an instance configured with the thresholds
\* okAfterSec and offlineAfterSec, for statistics last seen at lastSeen
EmitStatus(okAfterSec, offlineAfterSec, nowTs, lastSeen) ==
    LET st == [HostStats EXCEPT !.lastSeenTs = lastSeen]
        row == emitStatusWith(StaleInstance, okAfterSec, offlineAfterSec, nowTs, st)
    IN /\ \E c \in {writeTable(Core, hostKeyOf(StaleInstance), row)} : SetCore(c)
       /\ lastOp' = [op |-> "emitStatus", okAfterSec |-> okAfterSec,
                     offlineAfterSec |-> offlineAfterSec, nowTs |-> nowTs,
                     lastSeen |-> lastSeen, row |-> row]
       /\ UNCHANGED <<logMessages, nWrites, registered, now, logVars, udpVars, wdVars,
                      appVars>>

NextStale ==
    \E okAfterSec \in 0..MaxStale : \E offlineAfterSec \in 0..MaxStale :
        \E nowTs \in 0..MaxStale : \E lastSeen \in 0..MaxStale :
            EmitStatus(okAfterSec, offlineAfterSec, nowTs, lastSeen)

SpecStale == InitUdp /\ [][NextStale]_vars

\* C19: for every lastSeen, now and pair of thresholds the row of
\* emitStatus is OFFLINE with severity bad when lastSeen is unset; otherwise,
\* with age = now - lastSeen, OFFLINE (bad) when age >= offlineAfterSec, else
\* WARN (warn) when age >= okAfterSec, else OK (ok)
C19_Staleness ==
    lastOp.op = "emitStatus" =>
        LET age == lastOp.nowTs - lastOp.lastSeen
            row == lastOp.row
        IN IF lastOp.lastSeen = 0
           THEN row.severity = "bad" /\ row.text = "UDP: OFFLINE (udpPps=0.0)"
           ELSE IF age >= lastOp.offlineAfterSec
           THEN row.severity = "bad" /\ row.text = "UDP: OFFLINE (udpPps=0.0)"
           ELSE IF age >= lastOp.okAfterSec
           THEN row.severity = "warn" /\ row.text = "UDP: WARN (udpPps=0.0)"
           ELSE row.severity = "ok" /\ row.text = "UDP: OK (udpPps=0.0)"

\* a host whose age equals the ok threshold and is below the offline
\* threshold was classified
C19_Witness ==
    /\ lastOp.op = "emitStatus"
    /\ lastOp.lastSeen > 0
    /\ lastOp.nowTs - lastOp.lastSeen = lastOp.okAfterSec
    /\ lastOp.nowTs - lastOp.lastSeen < lastOp.offlineAfterSec
    /\ lastOp.row.severity = "warn"

-----------------------------------------------------------------------------
(* Claims about the build of the plugins (MonitorApp.buildPluginsFromConfig) *)

\* bound of the configuration: the number of its elements
MaxElements == 3

\* the instance createPlugin returns for the k-th element
ElementInstances == <<"i1", "i3", "i6", "i5">>

\* the type names a configuration gives the element of an instance: the
\* name of the plugin's module as it is, in another case and with blanks, a
\* name no module has, and none
TypeTexts(i) ==
    CASE i = "i1" -> {"ping", " Ping ", "nope", ""}
      [] i = "i6" -> {"watchdog", "WATCHDOG", "nope", ""}
      [] OTHER -> {"udp", "UDP ", "nope", ""}

\* the ElementConfig records the k-th element may be
ElementChoices(k) ==
    {[type |-> t, inst |-> ElementInstances[k], enabled |-> e] :
        t \in TypeTexts(ElementInstances[k]), e \in BOOLEAN}

\* the lists of n elements
RECURSIVE ConfigsOfLen(_)
ConfigsOfLen(n) ==
    IF n = 0 THEN {<<>>}
    ELSE {Append(els, el) : els \in ConfigsOfLen(n - 1), el \in ElementChoices(n)}

\* MonitorConfig.elements: the configurations of MaxElements elements
Configs == ConfigsOfLen(MaxElements)

\* MonitorApp.__init__ has returned and run() is about to build the plugins
InitConfig ==
    /\ InitBuiltFrom(<<>>)
    /\ InitThreads /\ InitLog /\ InitMux /\ InitWatchdog
    /\ \E els \in Configs :
           app = [phase |-> "build", idx |-> 1, startCalls |-> <<>>, stopCalls |-> <<>>,
                  raised |-> <<>>, passes |-> 0, elements |-> els]

\* buildPluginsFromConfig, one turn of the loop over self.config.elements:
\* a disabled element is passed over, an element whose type does not resolve
\* raises RuntimeError, which leaves run(), any other element is created,
\* appended to self.plugins and registered
AppBuildElement ==
    /\ app.phase = "build"
    /\ app.idx <= Len(app.elements)
    /\ LET elCfg == app.elements[app.idx]
       IN IF ~elCfg.enabled
          THEN /\ app' = [app EXCEPT !.idx = @ + 1]
               /\ UNCHANGED coreVars
          ELSE IF resolve(elCfg.type) = None
          THEN /\ app' = [app EXCEPT !.phase = "fatal",
                                     !.raised = Append(@, <<"build", elCfg.type>>)]
               /\ UNCHANGED coreVars
          ELSE /\ app' = [app EXCEPT !.idx = @ + 1]
               /\ registered' = Append(registered, elCfg.inst)
               /\ \E c \in {registerPlugin(Core, elCfg.inst)} : SetCore(c)
               /\ UNCHANGED <<logMessages, lastOp, nWrites, now>>
    /\ UNCHANGED <<logVars, udpVars, wdVars>>

\* buildPluginsFromConfig after the loop: the hosts are sorted and the
\* selection is clamped; run() goes on to start()
AppBuildDone ==
    /\ app.phase = "build"
    /\ app.idx > Len(app.elements)
    /\ app' = [app EXCEPT !.phase = "start", !.idx = 1]
    /\ \E c \in {afterSelectedHost(
                    [Core EXCEPT !.hostOrder =
                        sortedHosts(registered,
                                    {hostOrder[k] : k \in 1..Len(hostOrder)})])} :
           SetCore(c)
    /\ UNCHANGED <<logMessages, lastOp, nWrites, registered, now, logVars, udpVars,
                   wdVars>>

NextBuild == AppBuildElement \/ AppBuildDone \/ AppStartAny \/ AppStartDone

SpecBuild == InitConfig /\ [][NextBuild]_vars

\* the element is enabled and the registry has no type of its name, trimmed
\* and in lower case
Unresolved(elCfg) ==
    elCfg.enabled /\ Lower(Strip(elCfg.type)) \notin DOMAIN pluginsByType

\* C20: the build raises at an element exactly when the element is enabled
\* and its type, trimmed and in lower case, is no type of the registry;
\* nothing follows the error; and a configuration with such an element never
\* gets past the build: start() is called on no instance and no thread of a
\* plugin exists
C20_UnknownTypeFatal ==
    /\ [][/\ app.phase # "fatal"
          /\ (app.phase = "build" /\ app.idx <= Len(app.elements)
                  /\ Unresolved(app.elements[app.idx]))
              => (app'.phase = "fatal" /\ Len(app'.raised) = 1)]_vars
    /\ [](app.phase = "fatal" => Unresolved(app.elements[app.idx]))
    /\ []((\E k \in 1..Len(app.elements) : Unresolved(app.elements[k]))
             => /\ app.phase \in {"build", "fatal"}
                /\ app.startCalls = <<>>
                /\ DOMAIN workers = {}
                /\ wdPlugin.threadObj = None)

\* the build ended on an unknown type after an element whose type name was
\* written in another case had been created and registered
C20_Witness ==
    /\ app.phase = "fatal"
    /\ app.idx = 2
    /\ app.elements[1].type = " Ping "
    /\ registered = <<"i1">>
    /\ app.startCalls = <<>>

-----------------------------------------------------------------------------
(* Claims about the dispatch of commands (MonitorCore.execCommand) *)

\* the built-in commands, compared with the first word in lower case
BuiltIns == {"++", "--", "ls+", "ls-"}

\* the input is a token the host's command map is asked for: not blank, no
\* built-in and no number
IsCommandToken(rawCmd) ==
    /\ Strip(rawCmd) # ""
    /\ Lower(SplitFirst(Strip(rawCmd), " ")) \notin BuiltIns
    /\ ~isdigit(Strip(rawCmd))

\* the lines a call added to the log
AddedLines == SubSeq(commandLog', Len(commandLog) + 1, Len(commandLog'))

\* C21: a token that is no built-in and no number, entered while a host is
\* selected: if the host's command map lacks it, one "unknown command" line
\* is logged and no execCommand runs; if the map has it and the instance of
\* the stamped type is missing, one "no executor" line is logged; otherwise
\* execCommand of that instance runs once, and when it raises, one line with
\* the exception's kind and message is logged, else none.  In every case
\* the call returns and the selection, the hosts with their rows and command
\* maps, the cache and the logging flags are as before.
C21_TokenDispatch ==
    [][(/\ lastOp'.op = "execCommand"
        /\ IsCommandToken(lastOp'.rawCmd)
        /\ hostOrder # <<>>) =>
              LET s == Strip(lastOp'.rawCmd)
                  raises == lastOp'.raised
                  hostKeySel == hostOrder[selectedIndex + 1]
                  st == hostsByName[hostKeySel]
              IN /\ lastOp'.op = "execCommand"
                 /\ UNCHANGED <<selectedIndex, hostOrder, hostsByName,
                                lastRowByHostBaseType, logMessages, statusMsg>>
                 /\ IF s \notin DOMAIN st.commandsByKey
                    THEN /\ lastOp'.invoked = None
                         /\ AddedLines = <<<<now, hostKeySel \o ": unknown command: " \o s>>>>
                    ELSE LET pluginKey == st.commandsByKey[s].payload["plugin"]
                         IN IF pluginKey \notin DOMAIN st.executorsByPlugin
                            THEN /\ lastOp'.invoked = None
                                 /\ AddedLines = <<<<now, hostKeySel
                                        \o ": no executor for plugin=" \o pluginKey>>>>
                            ELSE /\ lastOp'.invoked = st.executorsByPlugin[pluginKey]
                                 /\ AddedLines =
                                        IF raises
                                        THEN <<<<now, hostKeySel \o ": :" \o s
                                                 \o " EXC RuntimeError: boom">>>>
                                        ELSE <<>>]_vars

\* the operator entered "R" with db1 selected, execCommand of the ssh
\* instance raised and the log holds the line of the exception
C21_Witness ==
    /\ lastOp.op = "execCommand"
    /\ lastOp.rawCmd = "R"
    /\ lastOp.invoked = "i2"
    /\ lastOp.raised
    /\ commandLog = <<<<now, "db1: :R EXC RuntimeError: boom">>>>

\* the first word of the input, in lower case
CmdKeyOf(rawCmd) == Lower(SplitFirst(Strip(rawCmd), " "))

\* the instances of self.plugins
RegisteredInstances == {registered[k] : k \in 1..Len(registered)}

\* C22: after "++" the logging flag of every registered instance is set,
\* after "--" it is clear: getLogMessageState of every instance reports the
\* commanded value
C22_ToggleAllReachesAll ==
    (lastOp.op = "execCommand" /\ CmdKeyOf(lastOp.rawCmd) \in {"++", "--"}) =>
        \A i \in RegisteredInstances : logMessages[i] = (CmdKeyOf(lastOp.rawCmd) = "++")

\* C23: "ls+" and "ls-" leave the logging flag of every instance of a host
\* other than the selected one, the selection and all rows as they are, and
\* give the flag of the selected host's instances that take it the commanded
\* value
C23_ToggleSelectedOnly ==
    [][(lastOp'.op = "execCommand" /\ CmdKeyOf(lastOp'.rawCmd) \in {"ls+", "ls-"}) =>
          /\ UNCHANGED <<selectedIndex, hostOrder, hostsByName, lastRowByHostBaseType,
                         commandLog>>
          /\ IF hostOrder = <<>> THEN UNCHANGED logMessages
             ELSE LET hostKeySel == hostOrder[selectedIndex + 1]
                  IN \A i \in Instances :
                        IF hostKeyOf(i) # hostKeySel
                        THEN logMessages'[i] = logMessages[i]
                        ELSE (i \in executorsOf(Core, hostKeySel) /\ typeNameOf(i) # "ssh")
                                 => logMessages'[i] = (CmdKeyOf(lastOp'.rawCmd) = "ls+")]_vars

\* "ls-" with db1 selected cleared the flag of db1's ping instance and left
\* the flag of the instance of host Web set
C23_Witness ==
    /\ lastOp.op = "execCommand"
    /\ lastOp.rawCmd = "ls-"
    /\ hostOrder # <<>>
    /\ selectedHost(Core) = "db1"
    /\ RegisteredInstances = {"i1", "i3"}
    /\ ~logMessages["i1"]
    /\ logMessages["i3"]

\* C24: a number N entered alone selects the N-th host of the display order,
\* counted from 1, when there is one; for 0 and for N beyond the number of
\* hosts the selection stays; in both cases nothing is logged and the hosts,
\* the rows, the cache and the logging flags are as before
C24_SelectByNumber ==
    [][(lastOp'.op = "execCommand" /\ isdigit(Strip(lastOp'.rawCmd))) =>
          LET N == int(Strip(lastOp'.rawCmd))
          IN /\ selectedIndex' = IF 1 <= N /\ N <= Len(hostOrder) THEN N - 1
                                  ELSE selectedIndex
             /\ lastOp'.invoked = None
             /\ UNCHANGED <<hostOrder, hostsByName, lastRowByHostBaseType, commandLog,
                            logMessages, statusMsg>>]_vars

\* "2" was entered with two hosts and the second host is selected
C24_Witness ==
    /\ lastOp.op = "execCommand"
    /\ lastOp.rawCmd = "2"
    /\ Len(hostOrder) = 2
    /\ selectedIndex = 1
    /\ selectedHost(Core) = hostOrder[2]

-----------------------------------------------------------------------------
(* Claims about the hosts of the core (MonitorCore.ensureHost) *)

\* the configurations whose types all resolve: each element is enabled or not
HostConfigs ==
    {els \in Configs : \A k \in 1..MaxElements : els[k].type = typeNameOf(els[k].inst)}

InitHosts ==
    /\ InitBuiltFrom(<<>>)
    /\ InitThreads /\ InitLog /\ InitMux /\ InitWatchdog
    /\ \E els \in HostConfigs :
           app = [phase |-> "build", idx |-> 1, startCalls |-> <<>>, stopCalls |-> <<>>,
                  raised |-> <<>>, passes |-> 0, elements |-> els]

\* the rows an instance writes about its host
HostRows(i) ==
    {TableRow(hostKeyOf(i), None, typeNameOf(i), v.text, v.severity, v.ts) :
        v \in RowVariants}

\* an instance of self.plugins writes a row once the plugins are built
HostWrite ==
    /\ app.phase = "start"
    /\ \E i \in RegisteredInstances : \E row \in HostRows(i) : PluginWriteTable(i, row)

\* the plugins are built, which creates the hosts, and then write rows
NextHosts == AppBuildElement \/ AppBuildDone \/ HostWrite

SpecHosts == InitHosts /\ [][NextHosts]_vars

\* the keys of the host order
OrderedHosts == {hostOrder[k] : k \in 1..Len(hostOrder)}

\* C25: every host key has one HostState and one entry of the host order;
\* a later ensureHost of the key keeps the host's rows, commands and
\* instances; the creation of the first host sets the selection to it; and
\* when the build is over the selection is the first host of the display
\* order, the one with the least order value
C25_EnsureHost ==
    /\ [](/\ OrderedHosts = DOMAIN hostsByName
          /\ Cardinality(OrderedHosts) = Len(hostOrder)
          /\ \A h \in DOMAIN hostsByName : hostsByName[h].host = h)
    /\ [][/\ \A h \in DOMAIN hostsByName :
               /\ h \in DOMAIN hostsByName'
               /\ \A src \in DOMAIN hostsByName[h].rowsBySource :
                      src \in DOMAIN hostsByName'[h].rowsBySource
               /\ \A key \in DOMAIN hostsByName[h].commandsByKey :
                      key \in DOMAIN hostsByName'[h].commandsByKey
               /\ \A t \in DOMAIN hostsByName[h].executorsByPlugin :
                      t \in DOMAIN hostsByName'[h].executorsByPlugin
          /\ (hostOrder = <<>> /\ hostOrder' # <<>>) =>
                 (Len(hostOrder') = 1 /\ selectedIndex' = 0)]_vars
    /\ []((app.phase = "start" /\ hostOrder # <<>>) =>
              /\ selectedIndex = 0
              /\ \A g \in OrderedHosts :
                     hostOrderMap(registered, hostOrder[1]) <= hostOrderMap(registered, g))

\* two instances of host db1 were built and one wrote a row twice: db1 has
\* one entry, both instances and the row
C25_Witness ==
    /\ app.phase = "start"
    /\ nWrites = 2
    /\ Cardinality({k \in 1..Len(hostOrder) : hostOrder[k] = "db1"}) = 1
    /\ DOMAIN hostsByName["db1"].executorsByPlugin = {"ping", "watchdog"}
    /\ "t" \in DOMAIN hostsByName["db1"].commandsByKey
    /\ "ping" \in DOMAIN hostsByName["db1"].rowsBySource

\* C25 as stated: the host created first is the selection the application
\* starts with
C25_FirstCreatedSelected ==
    (app.phase = "start" /\ registered # <<>> /\ nWrites = 0) =>
        selectedHost(Core) = hostKeyOf(registered[1])

-----------------------------------------------------------------------------
(* Claims about the watchdog's actions *)

\* the actions whose thread has not yet cleared the running flag
InFlight ==
    {k \in 1..Len(rescues) :
        rescues[k].pc \in {"trigger", "run", "recheck", "cooldown", "clear"}}

\* the step starts an action
StartsAction == Len(rescues') > Len(rescues)

\* C26: a call of maybeTrigger made while an action is running or while the
\* cooldown is not over at the poll's time stamp changes nothing of the
\* watchdog and starts nothing; at most one action is in flight at any time,
\* and the flag is set exactly while one is; an action starts only when none
\* is in flight and the clock has reached the end of the last cooldown window
C26_OneActionAtATime ==
    /\ [](Cardinality(InFlight) <= 1 /\ (wd.runningRescue <=> InFlight # {}))
    /\ [][/\ (/\ DecideStep
               /\ wdObs'.attempts = wdObs.attempts + 1
               /\ (wd.runningRescue \/ wd.cooldownUntilTs > wdLoop.nowTs)) =>
                  /\ rescues' = rescues
                  /\ wd'.runningRescue = wd.runningRescue
                  /\ wd'.cooldownUntilTs = wd.cooldownUntilTs
          /\ StartsAction =>
                  /\ InFlight = {}
                  /\ ~wd.runningRescue
                  /\ wd.cooldownUntilTs <= now
                  /\ Len(rescues') = Len(rescues) + 1]_vars

\* a second action is in flight after the first one ended and the cooldown
\* window it opened was over
C26_Witness ==
    /\ Len(rescues) = 2
    /\ rescues[1].pc = "done"
    /\ InFlight = {2}
    /\ wd.cooldownUntilTs <= now

\* the return codes of a rescue command that may fail
RescueCodes == {0, 1}

RRunCodes == \E k \in 1..Len(rescues) : \E rc \in RescueCodes : RRun(k, rc)

\* the probe reports, the watchdog polls and its actions succeed, fail with
\* a return code or raise
NextRescue ==
    \/ FirstProbeWrite \/ Tick
    \/ WdStart
    \/ WdCheck \/ WdCheckSet \/ WdSev \/ WdDecide
    \/ RTriggerAny \/ RRunCodes \/ RRunRaisesAny \/ RRecheckAny
    \/ RCooldownAny \/ RClearAny \/ RLogAny

SpecRescue == InitWd /\ [][NextRescue]_vars

\* the lines that report the return code of the rescue command
RcLines == {"[watchdog] db1: WATCHDOG: rescue rc=" \o str(rc) : rc \in RescueCodes}

\* C27: whatever the rescue command does (return code 0, another return
\* code, an exception), the action's thread goes through the finally
\* block: it stores the time of its completion plus cooldownSec in
\* cooldownUntilTs, then clears the running flag, and only then ends; once
\* it has done so the flag is not set unless another action is in flight
C27_CooldownAlwaysApplied ==
    /\ [][\A k \in 1..Len(rescues) :
              LET pc == rescues[k].pc
                  pc2 == rescues'[k].pc
              IN pc2 # pc =>
                    \/ pc = "trigger" /\ pc2 = "run"
                    \/ pc = "run" /\ pc2 \in {"recheck", "cooldown"}
                    \/ pc = "recheck" /\ pc2 = "cooldown"
                    \/ /\ pc = "cooldown" /\ pc2 = "clear"
                       /\ wd'.cooldownUntilTs = now + WdParams.cooldownSec
                       /\ wd'.runningRescue
                    \/ /\ pc = "clear" /\ pc2 = "log"
                       /\ ~wd'.runningRescue
                       /\ wd'.cooldownUntilTs = wd.cooldownUntilTs
                    \/ pc = "log" /\ pc2 = "done"]_vars
    /\ [](\A k \in 1..Len(rescues) :
              rescues[k].pc \in {"log", "done"} =>
                  /\ wd.cooldownUntilTs > 0
                  /\ InFlight = {} => ~wd.runningRescue)

\* an action whose command raised (no return code was logged) has ended:
\* the cooldown is set and the flag is clear
C27_Witness ==
    /\ Len(rescues) = 1
    /\ rescues[1].pc = "done"
    /\ CountLines(TriggerLines) = 1
    /\ CountLines(RcLines) = 0
    /\ wd.cooldownUntilTs > 0
    /\ ~wd.runningRescue

\* the number of rows the probe writes and the span of the clock
MaxObserved == 2
MaxObserveTime == 2

ObserveWrite ==
    /\ wdObs.probeWrites < MaxObserved
    /\ ProbeWriteAny

ObserveTick ==
    /\ now < MaxObserveTime
    /\ Tick

\* the probe's severity comes and goes, the watchdog (runOnFirst true or
\* false) polls it and its actions succeed, fail or raise
NextObserve ==
    \/ ObserveWrite \/ ObserveTick
    \/ WdStart
    \/ WdCheck \/ WdCheckSet \/ WdSev \/ WdDecide
    \/ RTriggerAny \/ RRunCodes \/ RRunRaisesAny \/ RRecheckAny
    \/ RCooldownAny \/ RClearAny \/ RLogAny

SpecObserve == InitWdFirst /\ [][NextObserve]_vars

\* the lines of the log for a change of the severity into the watched set
WatchedTransitionLines ==
    {"[watchdog] db1: WATCHDOG: [ping] " \o p \o " -> " \o c :
        p \in SeverityNames, c \in SeverityNames \cap wdWatchWhen}

\* C28: a poll that reads the severity it has recorded calls maybeTrigger
\* not and changes nothing, whether an action ran, what it returned and
\* whether the cooldown is over; maybeTrigger is called only by a poll that
\* sees the severity change to a watched one (or, with runOnFirst, sees a
\* watched one first), an action is started only by such a call, and so
\* the calls never outnumber the changes into the watched set that were
\* logged (plus one for the first observation with runOnFirst)
C28_NoRetryWhileUnchanged ==
    /\ [][/\ (DecideStep /\ wd.lastSeenSeverity # None
                  /\ wdLoop.sevStr = wd.lastSeenSeverity) =>
                 /\ wdObs'.attempts = wdObs.attempts
                 /\ rescues' = rescues
                 /\ wd' = wd
                 /\ commandLog' = commandLog
          /\ (wdObs'.attempts # wdObs.attempts) =>
                 /\ DecideStep
                 /\ wdObs'.attempts = wdObs.attempts + 1
                 /\ wdLoop.sevStr \in wdWatchWhen
                 /\ IF wd.lastSeenSeverity = None THEN wd.runOnFirst
                    ELSE wdLoop.sevStr # wd.lastSeenSeverity
          /\ (Len(rescues') # Len(rescues)) =>
                 /\ wdObs'.attempts = wdObs.attempts + 1
                 /\ Len(rescues') = Len(rescues) + 1]_vars
    /\ [](wdObs.attempts <= CountLines(WatchedTransitionLines)
                               + (IF wd.runOnFirst THEN 1 ELSE 0))

\* one attempt was made, its action failed with return code 1 and ended,
\* the cooldown is over, a poll has already seen bad again without an
\* attempt and the next poll, taken after the cooldown, reads bad again
C28_Witness ==
    /\ wdObs.attempts = 1
    /\ Len(rescues) = 1 /\ rescues[1].pc = "done"
    /\ CountLines({"[watchdog] db1: WATCHDOG: rescue rc=1"}) = 1
    /\ ~wd.runningRescue
    /\ wd.cooldownUntilTs > 0
    /\ wdObs.last = [prev |-> "bad", cur |-> "bad", attempted |-> FALSE, started |-> FALSE]
    /\ wdLoop.pc = "decide"
    /\ wdLoop.sevStr = "bad" /\ wd.lastSeenSeverity = "bad"
    /\ wdLoop.nowTs >= wd.cooldownUntilTs

-----------------------------------------------------------------------------
(* Claims about the datagrams of the listener *)

\* the number of datagrams that arrive and the clock's last reading
MaxForwarded == 2
MaxForwardTime == 2

\* two instances of host db1 on one endpoint; the dispatcher reaches the one
\* registered last, i7
ForwardElements == <<"i4", "i7">>
ForwardInstances == {ForwardElements[k] : k \in 1..Len(ForwardElements)}

InitForward ==
    /\ InitBuiltFrom(ForwardElements)
    /\ InitThreads /\ InitLog /\ InitMux /\ InitWatchdog /\ InitApp

ForwardStart == \E u \in ForwardInstances : UdpStart(u)

ForwardRecv ==
    /\ nRecv < MaxForwarded
    /\ \E id \in DOMAIN workers : \E senderIp \in SenderIps : recvfrom(id, senderIp, "hi")

ForwardTick ==
    /\ now < MaxForwardTime
    /\ Tick

\* the instances are started, datagrams arrive from a configured sender and
\* from a stranger, and the operator switches the forwarding on and off
NextForward ==
    \/ ForwardStart
    \/ WOpenAny \/ WCheckAny \/ WCheckSetAny \/ ForwardRecv \/ WRecvRaisesAny
    \/ WForwardAny \/ WEmitAny \/ WCallbacksAny
    \/ ForwardTick \/ UdpDispatch

SpecForward == InitForward /\ [][NextForward]_vars

\* the subscribers of a list that have their logging enabled
Enabled(subs) == {k \in 1..Len(subs) : logMessages[subs[k]]}

MaxErrPackets == 1

\* the instance that is started and stopped, and the listener it comes to have
RecvErrInstance == "i7"
ListenerIds == {"L1"}

RecvErrStart == UdpStart(RecvErrInstance)
RecvErrStop == UdpStop(RecvErrInstance)

RecvErrRecv ==
    /\ nRecv < MaxErrPackets
    /\ \E id \in DOMAIN workers : \E senderIp \in SenderIps : recvfrom(id, senderIp, "hi")

\* a step of the thread of a listener, the calls of emitStatus apart
WorkerStep(id) ==
    /\ id \in DOMAIN workers
    /\ \/ WOpen(id) \/ WCheck(id) \/ WCheckSet(id) \/ WRecvRaises(id)
       \/ WForward(id) \/ WEmit(id)

\* where the thread of a listener stands; "none" before it is started
PcOf(id) == IF id \in DOMAIN workers THEN workers[id].pc ELSE "none"

\* the instance is started and stopped while datagrams arrive and recvfrom
\* times out or fails
NextRecvErr ==
    \/ RecvErrStart \/ RecvErrStop \/ UdpStopSignal \/ UdpStopClose \/ UdpStopClear
    \/ WOpenAny \/ WCheckAny \/ WCheckSetAny \/ RecvErrRecv \/ WRecvRaisesAny
    \/ WForwardAny \/ WEmitAny \/ WCallbacksAny
    \/ ForwardTick \/ UdpDispatch

\* a started thread is scheduled again and again; the calls of emitStatus
\* return, which is what weak fairness of WCallbacks says, the step being
\* enabled exactly while the thread stands there
SpecRecvErr ==
    /\ InitForward /\ [][NextRecvErr]_vars
    /\ \A id \in ListenerIds :
          WF_vars(WorkerStep(id)) /\ []<>(PcOf(id) # "callbacks")

\* stop() has set the event of the listener
StopSignaled(id) == events[id]

\* C30: the step in which recvfrom raises ends neither the thread nor the
\* iteration: the emission test follows (an emission that is due is made)
\* and the thread comes back to the loop condition; a thread has left its
\* loop only after stop() signaled it; and a thread that is past recvfrom
\* reaches recvfrom again unless it leaves the loop
C30_ReceiveErrorsSurvived ==
    /\ [][\A id \in DOMAIN workers :
              (workers[id].pc = "recv" /\ workers'[id].pc # "recv" /\ nRecv' = nRecv) =>
                  /\ workers'[id].pc =
                         IF workers[id].nowTs >= workers[id].nextEmitTs
                         THEN "callbacks" ELSE "check"
                  /\ commandLog' = commandLog
                  /\ events' = events]_vars
    /\ [](\A id \in DOMAIN workers :
              workers[id].pc \in {"exited", "crashed"} => StopSignaled(id))
    /\ \A id \in ListenerIds :
          (PcOf(id) \in {"forward", "emit", "callbacks", "check", "check2"})
          ~> (PcOf(id) \in {"recv", "exited", "crashed"})

\* the thread has counted the only datagram that arrived, in an iteration
\* after the one that emitted: the earlier wait ended with an error, and no
\* stop was signaled
C30_Witness ==
    \E id \in DOMAIN workers :
        /\ nRecv = 1
        /\ workers[id].pc = "emit"
        /\ workers[id].nextEmitTs > 0
        /\ ~StopSignaled(id)
        /\ listeners[id].stopEvent # None
        /\ \E h \in DOMAIN listeners[id].statsByHost :
               listeners[id].statsByHost[h].packetCount = 1

-----------------------------------------------------------------------------
(* Claims about the emission cycle *)

\* the datagrams that arrive and the clock's last reading
MaxEmitPackets == 1
MaxEmitTime == 2

\* the sender of host Web; host db1 stays silent
EmitSenders == {"10.0.0.7"}

\* the listeners the two instances of the endpoint can come to have
EmitListenerIds == {"L1", "L2"}

RxStopAny == \E u \in RxInstances : UdpStop(u)

EmitRecv ==
    /\ nRecv < MaxEmitPackets
    /\ \E id \in DOMAIN workers : \E senderIp \in EmitSenders : recvfrom(id, senderIp, "hi")

EmitTick ==
    /\ now < MaxEmitTime
    /\ Tick

\* the instances of one endpoint are started and stopped, the network is
\* quiet but for a datagram or two, and time passes
NextEmit ==
    \/ RxStartAny \/ RxStopAny \/ UdpStopSignal \/ UdpStopClose \/ UdpStopClear
    \/ WOpenAny \/ WCheckAny \/ WCheckSetAny \/ EmitRecv \/ WRecvRaisesAny
    \/ WEmitAny \/ WCallbacksAny
    \/ EmitTick

\* a started thread is scheduled again and again and the calls of
\* emitStatus return
SpecEmit ==
    /\ InitUdp /\ [][NextEmit]_vars
    /\ \A id \in EmitListenerIds :
          WF_vars(WorkerStep(id)) /\ []<>(PcOf(id) # "callbacks")

\* the thread of the listener is in its loop, no stop was signaled to it and
\* the clock has reached the time of its next emission
EmissionDue(id) ==
    /\ PcOf(id) \in {"check", "check2", "recv", "emit"}
    /\ ~events[id]
    /\ now >= workers[id].nextEmitTs

\* C31: an emission updates the rates and takes, in the same step, the
\* snapshot of the statistics and of the subscriber lists; the calls that
\* follow leave for every host of the snapshot the row that emitStatus of
\* its (last) subscriber makes of the host's statistics; and whenever the
\* clock has reached the next emission time of a running listener, the
\* thread comes to make these calls unless a stop is signaled, datagram or
\* no datagram
C31_EmissionCycle ==
    /\ [][\A id \in DOMAIN workers :
              /\ EmissionOf(id) =>
                    /\ listeners'[id].statsByHost =
                           updateRatesLocked(listeners[id].statsByHost, workers[id].nowTs)
                    /\ workers'[id].statsSnap = listeners'[id].statsByHost
                    /\ workers'[id].subsByHostSnap = listeners[id].subsByHost
                    /\ workers'[id].nextEmitTs
                           = workers[id].nowTs + listeners[id].emitEverySec
              /\ (workers[id].pc = "callbacks" /\ workers'[id].pc # "callbacks") =>
                    \A h \in DOMAIN workers[id].subsByHostSnap :
                        LET subs == workers[id].subsByHostSnap[h]
                            st == Get(workers[id].statsSnap, h, HostStats)
                        IN /\ subs # <<>>
                           /\ hostsByName'[h].rowsBySource["udp"] =
                                  emitStatusRow(subs[Len(subs)], workers[id].nowTs, st)]_vars
    /\ \A id \in EmitListenerIds :
          (id \in DOMAIN workers /\ EmissionDue(id))
              ~> (PcOf(id) = "callbacks" \/ (id \in DOMAIN workers /\ events[id]))

\* no datagram has arrived and the thread has completed two emission cycles
\* for the subscribers of both hosts
C31_Witness ==
    \E id \in DOMAIN workers :
        /\ nRecv = 0
        /\ workers[id].pc = "check"
        /\ workers[id].nextEmitTs = 2 + listeners[id].emitEverySec
        /\ DOMAIN listeners[id].subsByHost = {"Web", "db1"}
        /\ \A h \in {"Web", "db1"} :
               hostsByName[h].rowsBySource["udp"].text = "UDP: OFFLINE (udpPps=0.0)"
        /\ ~events[id]

-----------------------------------------------------------------------------
(* Claims about the stop of a polling worker *)

\* the probe reports, the watchdog is started and stopped while its loop
\* polls and its actions run
NextWdStop ==
    \/ FirstProbeWrite
    \/ WdStart \/ WdStopSet \/ WdStopClear
    \/ WdCheck \/ WdCheckSet \/ WdSev \/ WdDecide
    \/ RTriggerAny \/ RRunAny \/ RRunRaisesAny \/ RRecheckAny
    \/ RCooldownAny \/ RClearAny \/ RLogAny

\* the loop is a thread of a running process and a call of stop() returns
SpecWdStop ==
    /\ InitWd /\ [][NextWdStop]_vars
    /\ WF_vars(WdLoopStep)
    /\ WF_vars(WdStopClear)

\* the loop has ended, by its condition or by an exception
LoopEnded == wdLoop.pc \in {"exited", "crashed"}

\* the step begins a poll: the condition held and nowTs was taken
BeginsPoll == wdLoop.pc = "check2" /\ wdLoop'.pc \in {"sev", "check"}

\* C32: once stop() has set the event the loop comes to its end; a poll
\* begins only in a step that finds an event that is not set; and a loop
\* that has ended takes no further step
C32_StopObserved ==
    /\ wdPlugin.isSet ~> LoopEnded
    /\ [][/\ BeginsPoll => (wdPlugin.stopEvent # None /\ ~wdPlugin.isSet)
          /\ LoopEnded => wdLoop' = wdLoop]_vars
    /\ [](LoopEnded => wdPlugin.isSet)

\* the loop has polled the probe, stop() was called and has returned, and
\* the loop has left by its condition
C32_Witness ==
    /\ wd.lastSeenSeverity # None
    /\ wdPlugin.isSet /\ wdPlugin.stopEvent = None /\ wdMain = "idle"
    /\ wdLoop.pc = "exited"

\* the line loopSafe writes when the loop raised
LoopExcLines ==
    {"[watchdog] db1: WATCHDOG: LOOP EXC AttributeError: "
        \o "'NoneType' object has no attribute 'is_set'"}

\* C37: whatever the interleaving of stop() with the loop, the loop ends
\* without raising: it never ends by an exception and the log holds no
\* "LOOP EXC" line
C37_StopNeverRaises ==
    /\ wdLoop.pc # "crashed"
    /\ CountLines(LoopExcLines) = 0

-----------------------------------------------------------------------------
(* Claims about concurrent writes to the aggregator.  MonitorCore takes no *)
(* lock in ensureHost, writeTableRow and writeTable, so the statements of  *)
(* two plugin threads interleave; every action below is one statement.     *)

WriterHosts == {"db1", "nx1"}

WriterSources == {"ping", "udp"}

\* the row thread t writes for a host under a source
WriterRow(t, h, src) == TableRow(h, None, src, "row of " \o t, "ok", 1)

WriterFrameOf(t) == writers.frame[t]

SetWriterFrame(t, f) == writers' = [writers EXCEPT !.frame[t] = f]

writerFrame == <<commandLog, statusMsg, logMessages, lastOp, nWrites, registered, now,
                 logLock, tpc, tline, tslice, tcalls, written, udpVars, wdVars, appVars>>

\* a plugin thread calls self.writeTable(row): fixedRow, hostKeyFixed, baseType
WtCall(t, row) ==
    /\ WriterFrameOf(t).pc = "idle"
    /\ WriterFrameOf(t).calls < MaxWriterCalls
    /\ SetWriterFrame(t, [pc |-> "cache", row |-> fixedRowOf(row.host, row),
                    key |-> OrDefault(Strip(StrOrEmpty(row.host)), "?"),
                    st |-> 0, calls |-> WriterFrameOf(t).calls + 1])
    /\ UNCHANGED <<hostsByName, hostOrder, selectedIndex, lastRowByHostBaseType, writerFrame>>

\* self.lastRowByHostBaseType[(hostKeyFixed, baseType)] = fixedRow
WtCache(t) ==
    /\ WriterFrameOf(t).pc = "cache"
    /\ LET fixedRow == WriterFrameOf(t).row
           hostKeyFixed == Strip(StrOrEmpty(fixedRow.host))
           baseType == getBaseTypeFromSource(fixedRow.source)
       IN lastRowByHostBaseType' =
              IF hostKeyFixed # "" /\ baseType # ""
              THEN Put(lastRowByHostBaseType, <<hostKeyFixed, baseType>>, fixedRow)
              ELSE lastRowByHostBaseType
    /\ SetWriterFrame(t, [WriterFrameOf(t) EXCEPT !.pc = "test"])
    /\ UNCHANGED <<hostsByName, hostOrder, selectedIndex, writerFrame>>

\* ensureHost: if key not in self.hostsByName
WtTest(t) ==
    /\ WriterFrameOf(t).pc = "test"
    /\ SetWriterFrame(t, [WriterFrameOf(t) EXCEPT
                      !.pc = IF WriterFrameOf(t).key \in DOMAIN hostsByName
                             THEN "lookup" ELSE "create"])
    /\ UNCHANGED <<hostsByName, hostOrder, selectedIndex, lastRowByHostBaseType, writerFrame>>

\* self.hostsByName[key] = HostState(host=key): a new object replaces the old one
WtCreate(t) ==
    /\ WriterFrameOf(t).pc = "create"
    /\ hostsByName' = Put(hostsByName, WriterFrameOf(t).key, HostState(WriterFrameOf(t).key))
    /\ writers' = [writers EXCEPT
                     !.frame[t].pc = "append",
                     !.made = Put(@, WriterFrameOf(t).key, Get(@, WriterFrameOf(t).key, 0) + 1)]
    /\ UNCHANGED <<hostOrder, selectedIndex, lastRowByHostBaseType, writerFrame>>

\* self.hostOrder.append(key)
WtAppend(t) ==
    /\ WriterFrameOf(t).pc = "append"
    /\ hostOrder' = Append(hostOrder, WriterFrameOf(t).key)
    /\ SetWriterFrame(t, [WriterFrameOf(t) EXCEPT !.pc = "select"])
    /\ UNCHANGED <<hostsByName, selectedIndex, lastRowByHostBaseType, writerFrame>>

\* if len(self.hostOrder) == 1: self.selectedIndex = 0
WtSelect(t) ==
    /\ WriterFrameOf(t).pc = "select"
    /\ selectedIndex' = IF Len(hostOrder) = 1 THEN 0 ELSE selectedIndex
    /\ SetWriterFrame(t, [WriterFrameOf(t) EXCEPT !.pc = "lookup"])
    /\ UNCHANGED <<hostsByName, hostOrder, lastRowByHostBaseType, writerFrame>>

\* return self.hostsByName[key]: st is the object the map holds at this moment
WtLookup(t) ==
    /\ WriterFrameOf(t).pc = "lookup"
    /\ SetWriterFrame(t, [WriterFrameOf(t) EXCEPT !.pc = "store",
                                      !.st = Get(writers.made, WriterFrameOf(t).key, 0)])
    /\ UNCHANGED <<hostsByName, hostOrder, selectedIndex, lastRowByHostBaseType, writerFrame>>

\* the object st of thread t is the one the map holds now
HoldsCurrent(t) == WriterFrameOf(t).st = Get(writers.made, WriterFrameOf(t).key, 0)


\* st.rowsBySource[pluginTypeFull] = row; st.ip = ... : a write into an object
\* that the map no longer holds is seen by no reader
WtStore(t) ==
    /\ WriterFrameOf(t).pc = "store"
    /\ LET row == WriterFrameOf(t).row
           key == WriterFrameOf(t).key
           pluginTypeFull == OrDefault(Lower(Strip(StrOrEmpty(row.source))), "?")
           baseType == SplitFirst(pluginTypeFull, ":")
       IN hostsByName' =
              IF pluginShowInTable(baseType) /\ HoldsCurrent(t)
              THEN [hostsByName EXCEPT
                      ![key].rowsBySource = Put(@, pluginTypeFull, row),
                      ![key].ip = IF row.ip # None /\ Strip(row.ip) # ""
                                  THEN Strip(row.ip) ELSE @]
              ELSE hostsByName
    /\ writers' = [writers EXCEPT
                     !.frame[t].pc = "idle",
                     !.done = Append(@, [thread |-> t, row |-> WriterFrameOf(t).row])]
    /\ UNCHANGED <<hostOrder, selectedIndex, lastRowByHostBaseType, writerFrame>>

WtCallAny == \E t \in WriterThreads, h \in WriterHosts, src \in WriterSources :
                 WtCall(t, WriterRow(t, h, src))
WtCacheAny == \E t \in WriterThreads : WtCache(t)
WtTestAny == \E t \in WriterThreads : WtTest(t)
WtCreateAny == \E t \in WriterThreads : WtCreate(t)
WtAppendAny == \E t \in WriterThreads : WtAppend(t)
WtSelectAny == \E t \in WriterThreads : WtSelect(t)
WtLookupAny == \E t \in WriterThreads : WtLookup(t)
WtStoreAny == \E t \in WriterThreads : WtStore(t)

NextWriters ==
    \/ WtCallAny
    \/ WtCacheAny
    \/ WtTestAny
    \/ WtCreateAny
    \/ WtAppendAny
    \/ WtSelectAny
    \/ WtLookupAny
    \/ WtStoreAny

SpecWriters == InitWd /\ [][NextWriters]_vars

\* every thread is outside writeTable
AllWritesReturned == \A t \in WriterThreads : WriterFrameOf(t).pc = "idle"

\* the number of entries of the host order that are key
Occurrences(order, key) == Cardinality({i \in 1..Len(order) : order[i] = key})

\* the hosts the configuration made at build time
BuiltHosts == {"db1"}

\* C33: once concurrent writes for a host key that was not known have returned,
\* the key has exactly one entry in the host order and the row of every caller
\* has its source among the rows of the host
C33_OneHostNoRowLost ==
    AllWritesReturned =>
        \A i \in 1..Len(writers.done) :
            LET row == writers.done[i].row
                key == OrDefault(Strip(StrOrEmpty(row.host)), "?")
            IN key \notin BuiltHosts =>
                   /\ key \in DOMAIN hostsByName
                   /\ Occurrences(hostOrder, key) = 1
                   /\ getBaseTypeFromSource(row.source) \in DOMAIN hostsByName[key].rowsBySource

\* C35: once concurrent writes for one host and source have returned, the row
\* the table shows and the row of the secondary cache are the same row
C35_ViewsAgree ==
    AllWritesReturned =>
        \A i \in 1..Len(writers.done) :
            LET row == writers.done[i].row
                key == OrDefault(Strip(StrOrEmpty(row.host)), "?")
                baseType == getBaseTypeFromSource(row.source)
            IN (key \in BuiltHosts /\ pluginShowInTable(baseType)) =>
                   /\ baseType \in DOMAIN hostsByName[key].rowsBySource
                   /\ <<key, baseType>> \in DOMAIN lastRowByHostBaseType
                   /\ hostsByName[key].rowsBySource[baseType]
                          = lastRowByHostBaseType[<<key, baseType>>]

-----------------------------------------------------------------------------
(* Claims about the alias map of a listener that instances of several      *)
(* hosts share.  i3 of host Web and i8 of host Cam both name 10.0.0.7.      *)

AliasInstances == {"i3", "i4", "i8"}

AliasAddAny == \E u \in AliasInstances : SubAdd(u)
AliasRemoveAny == \E u \in AliasInstances : SubRemove(u)

NextAlias == AliasAddAny \/ SubPacketAny \/ AliasRemoveAny

SpecAlias == InitListener /\ [][NextAlias]_vars

\* the names instance u brings to addSub: its host key and its aliases
NamesOf(u) == {hostKeyOf(u)} \cup Members(parseStrList(udpAliases(u)))

\* C34: while an instance is subscribed, its host key and each of its aliases
\* resolve in the alias map, whatever their case, to its own host key
C34_AliasesResolve ==
    \A u \in AliasInstances :
        listenerOf[u] # None =>
            \A name \in NamesOf(u) :
                Get(listeners["L1"].keyMapLower, Lower(name), None) = hostKeyOf(u)

-----------------------------------------------------------------------------
(* Claims about a stop() that meets the listener's loop *)

\* stop() of instance u has returned: it was started and has no listener
StopReturned(u) ==
    /\ starts[u] > 0
    /\ listenerOf[u] = None
    /\ mainPc.pluginObj # u

\* the instances of the snapshot the emission of thread id goes through
SnapshotSubs(id) ==
    UNION {Members(workers[id].subsByHostSnap[h]) : h \in DOMAIN workers[id].subsByHostSnap}

\* C36: the listener calls emitStatus of no instance, and forwards a payload
\* to no instance, whose stop() has returned
C36_NoCallbackAfterStop ==
    [][\A id \in DOMAIN workers :
          /\ (workers[id].pc = "callbacks" /\ workers'[id].pc = "check")
                 => \A u \in SnapshotSubs(id) : ~StopReturned(u)
          /\ (workers[id].pc = "forward" /\ workers'[id].pc = "emit")
                 => \A u \in Enabled(workers[id].subsSnap) : ~StopReturned(u)]_vars

-----------------------------------------------------------------------------
(* Claims about the three maps of a listener *)

\* the values of a dict
Values(m) == {m[k] : k \in DOMAIN m}

\* C38: in every state of a listener outside its lock the subscriber map and
\* the stats map have the same host keys, no subscriber list is empty, and
\* every alias maps to a host key of the subscriber map
C38_MapsAgree ==
    \A id \in DOMAIN listeners :
        LET l == listeners[id]
        IN /\ DOMAIN l.subsByHost = DOMAIN l.statsByHost
           /\ \A h \in DOMAIN l.subsByHost : l.subsByHost[h] # <<>>
           /\ Values(l.keyMapLower) \subseteq DOMAIN l.subsByHost

\* host Cam has lost its only subscriber i8 after a datagram of 10.0.0.7 was
\* counted for it; host Web keeps i3 and host db1 keeps i4
C38_Witness ==
    /\ lastOp.op = "removeSub" /\ lastOp.pluginObj = "i8"
    /\ nRecv > 0
    /\ DOMAIN listeners["L1"].subsByHost = {"Web", "db1"}
    /\ listeners["L1"].subsByHost["Web"] = <<"i3">>
    /\ "10.0.0.7" \notin DOMAIN listeners["L1"].keyMapLower

-----------------------------------------------------------------------------
(* Claims about the selection and the host order (lib/core.py, lib/app.py, *)
(* RichUi.moveSelection and the keys g and G of lib/ui.py)                  *)

\* a variant of moveSelection without the test against the last index
moveSelectionUnbounded(c, delta) ==
    IF c.hostOrder = <<>> THEN [c EXCEPT !.selectedIndex = 0]
    ELSE LET newIndex == c.selectedIndex + delta
         IN [c EXCEPT !.selectedIndex = IF newIndex < 0 THEN 0 ELSE newIndex]

\* RichUi.moveSelection
moveSelection(c, delta) ==
    IF c.hostOrder = <<>> THEN [c EXCEPT !.selectedIndex = 0]
    ELSE LET newIndex == c.selectedIndex + delta
             atLeast0 == IF newIndex < 0 THEN 0 ELSE newIndex
             maxIndex == Len(c.hostOrder) - 1
         IN [c EXCEPT !.selectedIndex = IF atLeast0 > maxIndex THEN maxIndex ELSE atLeast0]

\* the key g with the focus on the table: self.core.selectedIndex = 0
selectFirst(c) == [c EXCEPT !.selectedIndex = 0]

\* the key G with the focus on the table
selectLast(c) ==
    IF c.hostOrder # <<>>
    THEN [c EXCEPT !.selectedIndex = IF Len(c.hostOrder) - 1 > 0
                                     THEN Len(c.hostOrder) - 1 ELSE 0]
    ELSE c

selectFrame == <<logMessages, nWrites, registered, now, logVars, udpVars, wdVars, appVars>>

\* the keys up, k, down and j
MoveSelection(delta) ==
    /\ app.phase = "start"
    /\ \E c \in {moveSelection(Core, delta)} : SetCore(c)
    /\ lastOp' = [op |-> "moveSelection", delta |-> delta]
    /\ UNCHANGED selectFrame

SelectFirst ==
    /\ app.phase = "start"
    /\ \E c \in {selectFirst(Core)} : SetCore(c)
    /\ lastOp' = [op |-> "selectFirst"]
    /\ UNCHANGED selectFrame

SelectLast ==
    /\ app.phase = "start"
    /\ \E c \in {selectLast(Core)} : SetCore(c)
    /\ lastOp' = [op |-> "selectLast"]
    /\ UNCHANGED selectFrame

MoveSelectionAny == \E delta \in {-1, 1} : MoveSelection(delta)

\* the operator enters the number of a host, of no host, or a command key
SelectInputs == {"0", "1", "3", "4", "t"}

SelectDispatch ==
    /\ app.phase = "start"
    /\ \E rawCmd \in SelectInputs : ExecCommand(rawCmd, FALSE)

\* an instance writes a row about its own host or about a host no element of
\* the configuration names, which ensureHost then creates
SelectWrite ==
    /\ app.phase = "start"
    /\ \E i \in RegisteredInstances : \E h \in {hostKeyOf(i), "nx1"} :
           PluginWriteTable(i, TableRow(h, None, typeNameOf(i), "up", "ok", 1))

NextSelect ==
    \/ AppBuildElement \/ AppBuildDone
    \/ MoveSelectionAny \/ SelectFirst \/ SelectLast
    \/ SelectDispatch \/ SelectWrite

SpecSelect == InitHosts /\ [][NextSelect]_vars

\* C39: when there is a host the selection index is the index of a host, and
\* the host order lists every known host key once and nothing else
C39_SelectionInOrder ==
    /\ OrderedHosts = DOMAIN hostsByName
    /\ \A j, k \in 1..Len(hostOrder) : hostOrder[j] = hostOrder[k] => j = k
    /\ hostOrder # <<>> => (0 <= selectedIndex /\ selectedIndex <= Len(hostOrder) - 1)

\* two hosts were built and sorted, a third came with a row, and the key
\* down has moved the selection to the last host
C39_Witness ==
    /\ app.phase = "start"
    /\ Len(hostOrder) = 3
    /\ hostOrder[3] = "nx1"
    /\ lastOp.op = "moveSelection" /\ lastOp.delta = 1
    /\ selectedIndex = 2

-----------------------------------------------------------------------------
(* Claims about the commands and the executors of a host *)

\* the type stamped on a command, as execCommand reads it from the payload
StampedPlugin(cmd) ==
    OrDefault(Lower(Strip(IF "plugin" \in DOMAIN cmd.payload
                          THEN StrOrEmpty(cmd.payload["plugin"]) ELSE "")), "?")

\* C40: every command of a host's command map is stamped with the type of an
\* instance registered under that host, and the dispatch of a key of the
\* selected host's map runs execCommand of an instance
C40_CommandsHaveExecutors ==
    /\ [](\A h \in DOMAIN hostsByName :
             \A k \in DOMAIN hostsByName[h].commandsByKey :
                 LET pluginKey == StampedPlugin(hostsByName[h].commandsByKey[k])
                 IN /\ pluginKey \in DOMAIN hostsByName[h].executorsByPlugin
                    /\ hostKeyOf(hostsByName[h].executorsByPlugin[pluginKey]) = h
                    /\ typeNameOf(hostsByName[h].executorsByPlugin[pluginKey]) = pluginKey)
    /\ [][(/\ lastOp'.op = "execCommand"
           /\ IsCommandToken(lastOp'.rawCmd)
           /\ hostOrder # <<>>
           /\ Strip(lastOp'.rawCmd)
                  \in DOMAIN hostsByName[hostOrder[selectedIndex + 1]].commandsByKey) =>
              /\ lastOp'.invoked # None
              /\ \A k \in 1..Len(AddedLines) :
                     AddedLines[k][2] # hostOrder[selectedIndex + 1]
                                          \o ": no executor for plugin="
                                          \o StampedPlugin(hostsByName[hostOrder[selectedIndex + 1]]
                                                               .commandsByKey[Strip(lastOp'.rawCmd)])]_vars

\* the ssh and the ping instance of host db1 both declare the key t; ping
\* registered last, and the key t entered runs the ping instance
C40_Witness ==
    /\ lastOp.op = "execCommand"
    /\ lastOp.rawCmd = " t "
    /\ lastOp.invoked = "i1"
    /\ DOMAIN hostsByName["db1"].executorsByPlugin = {"ping", "ssh"}
    /\ StampedPlugin(hostsByName["db1"].commandsByKey["R"]) = "ssh"

====
